---- MODULE Spec2Model ----
(***************************************************************************)
(* Model of the HTTP/2 client driver of VTest2 (src/src/http/h2): the      *)
(* flow-control window, the stream state machine, the stream manager, the  *)
(* settings negotiator and H2Client's connect / request / recv_response    *)
(* loops, driven by a peer that puts frames on the transport.              *)
(***************************************************************************)
EXTENDS Integers, Sequences, FiniteSets, TLC

\* ------------------------------------------------------------------ bounds

\* Frames the peer puts on the transport over the life of the connection.
MaxPeerFrames == 4
\* Frames in flight (sent by the peer, not yet read by the client).
MaxWire == 1
\* API calls the test issues on the client.
MaxCalls == 3
\* Operations the test applies to a stream, a stream manager or a window on
\* its own.
MaxOps == 5

\* ------------------------------------------------------- program constants

\* Option::None for Option<u32> fields, held like the u32 values themselves
\* (see the wide integers below) as a number no u32 is equal to.
None == [hi |-> -1, lo |-> 0]
DEFAULT_INITIAL_WINDOW_SIZE == 65535
DEFAULT_MAX_FRAME_SIZE == 16384
DEFAULT_HEADER_TABLE_SIZE == 4096
CONNECTION_STREAM_ID == 0
\* FlowControlWindow::max_size, 2^31 - 1
max_size == 2147483647
\* Settings::validate ranges
MinMaxFrameSize == 16384
MaxMaxFrameSize == 16777215

\* FrameType discriminants
Data == 0
Headers == 1
Priority == 2
RstStream == 3
Settings == 4
PushPromise == 5
Ping == 6
Goaway == 7
WindowUpdate == 8
Continuation == 9
\* The 24-byte connection preface is no frame; it is logged with this tag.
PrefaceTag == 255
PrefaceLen == 24

\* ErrorCode discriminants
PROTOCOL_ERROR == 1
FLOW_CONTROL_ERROR == 3
FRAME_SIZE_ERROR == 6
CANCEL == 8

\* FrameFlags bits
END_STREAM == 1
ACK == 1
END_HEADERS == 4

\* ----------------------------------------------------------------- helpers

\* FrameFlags::is_set for a single-bit flag
is_set(flags, flag) == (flags \div flag) % 2 = 1
is_end_stream(flags) == is_set(flags, END_STREAM)
is_ack(flags) == is_set(flags, ACK)

\* u16::from_be_bytes
u16_from_be_bytes(b) == b[1] * 256 + b[2]

\* ----------------------------------------------------------- wide integers

\* A u32 read off the wire and an i64 window size can pass 2^31 - 1, the
\* largest integer TLC holds. Such a number n is held as its two limbs,
\* n = hi * 65536 + lo with lo in 0..65535 (hi is negative for a negative n).
Limb == 65536
Wide(n) == [hi |-> n \div Limb, lo |-> n % Limb]
\* The integer a wide number stands for, where it is known to fit.
Narrow(x) == x.hi * Limb + x.lo
Plus(x, y) ==
    LET lo == x.lo + y.lo IN [hi |-> x.hi + y.hi + (lo \div Limb), lo |-> lo % Limb]
Minus(x, y) ==
    LET lo == x.lo - y.lo IN [hi |-> x.hi - y.hi + (lo \div Limb), lo |-> lo % Limb]
Less(x, y) == x.hi < y.hi \/ (x.hi = y.hi /\ x.lo < y.lo)
LessEq(x, y) == x = y \/ Less(x, y)

\* u32::MAX, 2^32 - 1
u32_MAX == [hi |-> 65535, lo |-> 65535]

\* u32::to_be_bytes / u32::from_be_bytes
U32Bytes(v) == << v.hi \div 256, v.hi % 256, v.lo \div 256, v.lo % 256 >>
u32_from_be_bytes(b) == [hi |-> b[1] * 256 + b[2], lo |-> b[3] * 256 + b[4]]

\* ------------------------------------------------------ FlowControlWindow

\* FlowControlWindow::with_initial_size; initial_size (u32) and current_size
\* (i64) are wide, max_size is the constant above.
with_initial_size(initial_size) ==
    [initial_size |-> initial_size, current_size |-> initial_size]

\* FlowControlWindow::size, for a window whose size is known to fit.
size(w) == Narrow(w.current_size)

\* usize::MAX. A usize is held as the i64 that has the same 64 bits, which is
\* what `amount as i64` yields and what `as usize` turns back: the values from
\* 2^63 up are the negative ones, and usize::MAX is -1.
usize_MAX == -1

\* FlowControlWindow::consume: the window after the call and the amount granted.
\* The minimum is std::cmp::min on the two i64, cast back unchanged.
consume(w, amount) ==
    IF amount = 0 THEN [w |-> w, granted |-> 0]
    ELSE IF LessEq(w.current_size, Wide(0)) THEN [w |-> w, granted |-> 0]
    ELSE LET to_send == IF Less(Wide(amount), w.current_size) THEN amount
                        ELSE Narrow(w.current_size)
         IN  [w |-> [w EXCEPT !.current_size = Minus(@, Wide(to_send))],
              granted |-> to_send]

\* FlowControlWindow::increase: ok is FALSE for Err(FlowControl).
increase(w, increment) ==
    LET new_size == Plus(w.current_size, increment)
    IN  IF increment = Wide(0) THEN [ok |-> FALSE, w |-> w]
        ELSE IF Less(Wide(max_size), new_size) THEN [ok |-> FALSE, w |-> w]
        ELSE [ok |-> TRUE, w |-> [w EXCEPT !.current_size = new_size]]

\* FlowControlWindow::decrease
decrease(w, amount) == [w EXCEPT !.current_size = Minus(@, Wide(amount))]

\* An update_initial_size that applies the difference whatever it comes to.
update_initial_size_unchecked(w, new_initial_size) ==
    [ok |-> TRUE,
     w |-> [initial_size |-> new_initial_size,
            current_size |-> Plus(w.current_size, Minus(new_initial_size, w.initial_size))]]

\* FlowControlWindow::update_initial_size: ok is FALSE for Err(FlowControl).
update_initial_size(w, new_initial_size) ==
    LET diff == Minus(new_initial_size, w.initial_size)
        new_current == Plus(w.current_size, diff)
    IN  IF Less(Wide(max_size), new_current) THEN [ok |-> FALSE, w |-> w]
        ELSE [ok |-> TRUE,
              w |-> [initial_size |-> new_initial_size, current_size |-> new_current]]

\* FlowControlWindow::reset
reset(w) == [w EXCEPT !.current_size = w.initial_size]

\* FlowControlWindow::new
FlowControlWindow_new == with_initial_size(Wide(DEFAULT_INITIAL_WINDOW_SIZE))

\* ConnectionFlowControl::new
ConnectionFlowControl_new ==
    [send_window |-> FlowControlWindow_new, recv_window |-> FlowControlWindow_new]

\* ---------------------------------------------------------------- H2Stream

can_send(state) == state \in {"Open", "HalfClosedRemote"}
can_receive(state) == state \in {"Open", "HalfClosedLocal"}
is_closed(state) == state = "Closed"

\* H2Stream::new: both windows start at the default size whatever the peer announced.
H2Stream_new ==
    [state |-> "Idle",
     send_window |-> FlowControlWindow_new,
     recv_window |-> FlowControlWindow_new]

\* The seven values of StreamState
StreamStates ==
    {"Idle", "ReservedLocal", "ReservedRemote", "Open", "HalfClosedLocal",
     "HalfClosedRemote", "Closed"}

\* H2Stream::set_state
set_state(s, state) == [s EXCEPT !.state = state]

\* H2Stream::receive_headers: ok is FALSE for Err(Protocol).
H2Stream_receive_headers(s, end_stream) ==
    CASE s.state = "Idle" ->
           [ok |-> TRUE,
            s |-> [s EXCEPT !.state = IF end_stream THEN "HalfClosedRemote" ELSE "Open"]]
      [] s.state = "ReservedRemote" ->
           [ok |-> TRUE, s |-> [s EXCEPT !.state = "HalfClosedLocal"]]
      [] s.state \in {"Open", "HalfClosedLocal"} ->
           [ok |-> TRUE,
            s |-> IF end_stream THEN [s EXCEPT !.state = "HalfClosedRemote"] ELSE s]
      [] OTHER -> [ok |-> FALSE, s |-> s]

\* H2Stream::receive_data: ok is FALSE for Err(StreamClosed).
H2Stream_receive_data(s, data_len, end_stream) ==
    IF ~can_receive(s.state) THEN [ok |-> FALSE, s |-> s]
    ELSE LET st == IF end_stream
                   THEN CASE s.state = "Open" -> "HalfClosedRemote"
                          [] s.state = "HalfClosedLocal" -> "Closed"
                          [] OTHER -> s.state
                   ELSE s.state
         IN  [ok |-> TRUE,
              s |-> [s EXCEPT !.recv_window = decrease(@, data_len), !.state = st]]

\* A send_headers that takes every state for Idle.
H2Stream_send_headers_any(s, end_stream) ==
    [ok |-> TRUE,
     s |-> [s EXCEPT !.state = IF end_stream THEN "HalfClosedLocal" ELSE "Open"]]

\* H2Stream::send_headers: ok is FALSE for Err(Protocol).
H2Stream_send_headers(s, end_stream) ==
    CASE s.state = "Idle" ->
           [ok |-> TRUE,
            s |-> [s EXCEPT !.state = IF end_stream THEN "HalfClosedLocal" ELSE "Open"]]
      [] s.state = "ReservedLocal" ->
           [ok |-> TRUE, s |-> [s EXCEPT !.state = "HalfClosedRemote"]]
      [] s.state \in {"Open", "HalfClosedRemote"} ->
           [ok |-> TRUE,
            s |-> IF end_stream THEN [s EXCEPT !.state = "HalfClosedLocal"] ELSE s]
      [] OTHER -> [ok |-> FALSE, s |-> s]

\* A send_data that leaves out the can_send check.
H2Stream_send_data_unchecked(s, data_len, end_stream) ==
    LET c == consume(s.send_window, data_len)
    IN  [ok |-> TRUE, s |-> [s EXCEPT !.send_window = c.w], sendable |-> c.granted]

\* H2Stream::send_data: ok is FALSE for Err(StreamClosed); sendable is the amount
\* granted by the stream's send window.
H2Stream_send_data(s, data_len, end_stream) ==
    IF ~can_send(s.state) THEN [ok |-> FALSE, s |-> s, sendable |-> 0]
    ELSE LET c == consume(s.send_window, data_len)
             st == IF end_stream
                   THEN CASE s.state = "Open" -> "HalfClosedLocal"
                          [] s.state = "HalfClosedRemote" -> "Closed"
                          [] OTHER -> s.state
                   ELSE s.state
         IN  [ok |-> TRUE,
              s |-> [s EXCEPT !.send_window = c.w, !.state = st],
              sendable |-> c.granted]

\* H2Stream::close
H2Stream_close(s) == [s EXCEPT !.state = "Closed"]

\* H2Stream::reset (the buffers it clears are not part of the model's stream)
H2Stream_reset(s) == [s EXCEPT !.state = "Closed"]

\* ----------------------------------------------------------------- Settings

\* The fields of Settings the driver reads; None is an absent field.
Settings_new ==
    [max_concurrent_streams |-> None, initial_window_size |-> None,
     max_frame_size |-> None]

Settings_default_settings ==
    [max_concurrent_streams |-> None,
     initial_window_size |-> Wide(DEFAULT_INITIAL_WINDOW_SIZE),
     max_frame_size |-> Wide(DEFAULT_MAX_FRAME_SIZE)]

\* Settings::validate: TRUE for Ok, FALSE for Err(InvalidSettings).
validate(s) ==
    /\ (s.initial_window_size # None => ~Less(Wide(max_size), s.initial_window_size))
    /\ (s.max_frame_size # None =>
          /\ ~Less(s.max_frame_size, Wide(MinMaxFrameSize))
          /\ ~Less(Wide(MaxMaxFrameSize), s.max_frame_size))

\* SettingsBuilder::build: validate on the settings the setters have stored.
SettingsBuilder_build(s) == validate(s)

\* Settings::merge: present fields of other overwrite, absent ones leave self alone.
merge(self, other) ==
    [f \in DOMAIN self |-> IF other[f] # None THEN other[f] ELSE self[f]]

\* The parse loop of recv_settings: 6-byte entries, a trailing partial entry is
\* not looked at, a later entry for the same id overwrites an earlier one.
RECURSIVE parse_settings(_, _, _)
parse_settings(payload, pos, settings) ==
    IF pos + 6 > Len(payload) THEN settings
    ELSE LET id == u16_from_be_bytes(SubSeq(payload, pos + 1, pos + 2))
             value == u32_from_be_bytes(SubSeq(payload, pos + 3, pos + 6))
             next == CASE id = 3 -> [settings EXCEPT !.max_concurrent_streams = value]
                       [] id = 4 -> [settings EXCEPT !.initial_window_size = value]
                       [] id = 5 -> [settings EXCEPT !.max_frame_size = value]
                       [] OTHER -> settings
         IN  parse_settings(payload, pos + 6, next)

\* ---------------------------------------------------- frames on the wire

\* A frame as read_frame_from_session returns it: the type byte and the flags of
\* the 9-byte header, the 31-bit stream id and the payload bytes (the header's
\* length field is the payload's length).
Frame(type, flags, stream_id, payload) ==
    [type |-> type, flags |-> flags, stream_id |-> stream_id, payload |-> payload]

\* decode_header's type: FrameType::from_u8(byte).unwrap_or(FrameType::Data)
decode_type(byte) == IF byte \in 0..9 THEN byte ELSE Data

\* An encode_header that writes the stream id with its reserved bit.
encode_header_unmasked(frame_type, flags, stream_id, length) ==
    << (length \div 65536) % 256, (length \div 256) % 256, length % 256,
       frame_type, flags,
       (stream_id.hi \div 256) % 256, stream_id.hi % 256,
       stream_id.lo \div 256, stream_id.lo % 256 >>

\* FrameCodec::encode_header: the 9 bytes of the header. frame_type is the
\* discriminant (FrameType::as_u8), flags the byte (FrameFlags::as_u8),
\* stream_id a u32 (wide), length a usize; `& 0x7FFFFFFF` clears the top bit
\* of the high half.
encode_header(frame_type, flags, stream_id, length) ==
    LET masked == [hi |-> stream_id.hi % 32768, lo |-> stream_id.lo]
    IN  << (length \div 65536) % 256, (length \div 256) % 256, length % 256,
           frame_type, flags,
           (masked.hi \div 256) % 256, masked.hi % 256,
           masked.lo \div 256, masked.lo % 256 >>

\* FrameCodec::decode_header: (frame_type, flags, stream_id, length) of the 9
\* bytes; the stream id is below 2^31.
decode_header(bytes) ==
    [frame_type |-> decode_type(bytes[4]),
     flags |-> bytes[5],
     stream_id |-> (bytes[6] % 128) * 16777216 + bytes[7] * 65536 + bytes[8] * 256 + bytes[9],
     length |-> bytes[1] * 65536 + bytes[2] * 256 + bytes[3]]

\* A frame or the preface as the client writes it to the session: len is the
\* header's length field; payload holds the bytes of the short control frames and
\* is left empty for HEADERS and DATA, whose content the driver never reads back.
Written(type, flags, stream_id, len, payload) ==
    [type |-> type, flags |-> flags, stream_id |-> stream_id, len |-> len,
     payload |-> payload]

\* encode_settings_frame(SettingsFrame::ack())
SettingsAckFrame == Written(Settings, ACK, 0, 0, <<>>)
\* encode_settings_frame of H2ClientBuilder's local settings: header_table_size,
\* enable_push, initial_window_size, max_frame_size, 6 bytes each.
LocalSettingsFrame == Written(Settings, 0, 0, 24, <<>>)
PrefaceWritten == Written(PrefaceTag, 0, 0, PrefaceLen, <<>>)
\* encode_ping_frame(PingFrame::ack(data)): stream 0, 8 bytes, the ACK flag.
PingFrame_ack(data) == Written(Ping, ACK, 0, 8, data)

\* HPACK as the driver uses it: a header block of indexed fields of the static
\* table (RFC 7541 appendix A, entries 8..14, the :status entries); a value is
\* the sequence of its ASCII codes.
static_status(index) ==
    CASE index = 8 -> <<50, 48, 48>>
      [] index = 9 -> <<50, 48, 52>>
      [] index = 10 -> <<50, 48, 54>>
      [] index = 11 -> <<51, 48, 52>>
      [] index = 12 -> <<52, 48, 48>>
      [] index = 13 -> <<52, 48, 52>>
      [] index = 14 -> <<53, 48, 48>>

hpack_decode(block) ==
    IF \A i \in 1..Len(block) : block[i] \in 136..142
    THEN [ok |-> TRUE,
          fields |-> [i \in 1..Len(block) |->
                        [name |-> ":status", value |-> static_status(block[i] - 128)]]]
    ELSE [ok |-> FALSE, fields |-> <<>>]

\* value_str.parse::<u16>().unwrap_or(0)
RECURSIVE decimal(_, _)
decimal(digits, acc) ==
    IF digits = <<>> THEN acc
    ELSE decimal(Tail(digits), acc * 10 + (Head(digits) - 48))

parse_status(value) ==
    IF value # <<>> /\ (\A i \in 1..Len(value) : value[i] \in 48..57)
       /\ decimal(value, 0) <= 65535
    THEN decimal(value, 0)
    ELSE 0

\* ---------------------------------------------------------------- HttpSession

\* HttpSession over its transport: inbound holds the bytes that have arrived
\* and the client has not read, in_flight the bytes the peer has sent that
\* have not arrived yet, peer_closed tells whether the peer has shut its side
\* down, and outbound holds the bytes the transport has accepted from the
\* client, in order.
HttpSession_new ==
    [inbound |-> <<>>, in_flight |-> <<>>, peer_closed |-> FALSE, outbound |-> <<>>]

\* ------------------------------------------------------------------- state

VARIABLES
    connected,               \* H2Client::connected
    streams,                 \* StreamManager::streams, stream id -> H2Stream
    next_stream_id,          \* StreamManager::next_stream_id
    max_concurrent_streams,  \* StreamManager::max_concurrent_streams
    flow_control,            \* H2Client::flow_control (connection windows)
    remote_settings,         \* H2Client::remote_settings
    pc,                      \* where the client is: "idle" between calls, else the
                             \* call that is blocked in recv_frame
    cur,                     \* recv_response's stream_id
    response,                \* recv_response's response
    headers_received,        \* recv_response's headers_received
    result,                  \* what the last finished API call returned
    out,                     \* what the client wrote to the session in the last step
    wire,                    \* frames the peer has sent and the client has not read
    sent,                    \* every frame the peer has sent so far
    session,                 \* H2Client::session, the HttpSession and its transport
    calls                    \* every API call the test has issued so far, the
                             \* last one being the call in progress, each with
                             \* what it returned ("pending" until it returns)

vars == << connected, streams, next_stream_id, max_concurrent_streams, flow_control,
           remote_settings, pc, cur, response, headers_received, result,
           out, wire, sent, session, calls >>

\* The client's own fields as one value, for the operators below.
Client ==
    [connected |-> connected, streams |-> streams, next_stream_id |-> next_stream_id,
     max_concurrent_streams |-> max_concurrent_streams, flow_control |-> flow_control,
     remote_settings |-> remote_settings, out |-> <<>>]

Install(c) ==
    /\ connected' = c.connected
    /\ streams' = c.streams
    /\ next_stream_id' = c.next_stream_id
    /\ max_concurrent_streams' = c.max_concurrent_streams
    /\ flow_control' = c.flow_control
    /\ remote_settings' = c.remote_settings
    /\ out' = c.out

Write(c, w) == [c EXCEPT !.out = Append(@, w)]

\* ----------------------------------------------------------- StreamManager

\* A create_stream whose cap check lets one stream too many through.
create_stream_over(c) ==
    LET active_count ==
          Cardinality({s \in DOMAIN c.streams : ~is_closed(c.streams[s].state)})
        stream_id == c.next_stream_id
    IN  IF c.max_concurrent_streams # None
           /\ Less(c.max_concurrent_streams, Wide(active_count))
        THEN [ok |-> FALSE, c |-> c, id |-> 0]
        ELSE [ok |-> TRUE,
              c |-> [c EXCEPT
                       !.next_stream_id = @ + 2,
                       !.streams = [i \in DOMAIN c.streams \cup {stream_id} |->
                                      IF i = stream_id THEN H2Stream_new
                                      ELSE c.streams[i]]],
              id |-> stream_id]

\* A create_stream that takes the id before it checks the cap.
create_stream_eager(c) ==
    LET active_count ==
          Cardinality({s \in DOMAIN c.streams : ~is_closed(c.streams[s].state)})
        stream_id == c.next_stream_id
    IN  IF c.max_concurrent_streams # None
           /\ LessEq(c.max_concurrent_streams, Wide(active_count))
        THEN [ok |-> FALSE, c |-> [c EXCEPT !.next_stream_id = @ + 2], id |-> 0]
        ELSE [ok |-> TRUE,
              c |-> [c EXCEPT
                       !.next_stream_id = @ + 2,
                       !.streams = [i \in DOMAIN c.streams \cup {stream_id} |->
                                      IF i = stream_id THEN H2Stream_new
                                      ELSE c.streams[i]]],
              id |-> stream_id]

\* StreamManager::create_stream: ok is FALSE for Err(TooManyStreams).
create_stream(c) ==
    LET active_count ==
          Cardinality({s \in DOMAIN c.streams : ~is_closed(c.streams[s].state)})
        stream_id == c.next_stream_id
    IN  IF c.max_concurrent_streams # None
           /\ LessEq(c.max_concurrent_streams, Wide(active_count))
        THEN [ok |-> FALSE, c |-> c, id |-> 0]
        ELSE [ok |-> TRUE,
              c |-> [c EXCEPT
                       !.next_stream_id = @ + 2,
                       !.streams = [i \in DOMAIN c.streams \cup {stream_id} |->
                                      IF i = stream_id THEN H2Stream_new
                                      ELSE c.streams[i]]],
              id |-> stream_id]

\* StreamManager::get_or_create_stream: an unknown id gets a new stream; the
\* call returns Ok(stream) whatever the id.
get_or_create_stream(c, stream_id) ==
    IF stream_id \in DOMAIN c.streams THEN c
    ELSE [c EXCEPT !.streams = [i \in DOMAIN c.streams \cup {stream_id} |->
                                  IF i = stream_id THEN H2Stream_new
                                  ELSE c.streams[i]]]

\* StreamManager::set_max_concurrent_streams
set_max_concurrent_streams(c, max) == [c EXCEPT !.max_concurrent_streams = max]

\* ----------------------------------------------------------------- H2Client

\* H2Client::recv_settings once recv_frame has returned frame f: the outcomes
\* (client after the call, "Ok" or the error kind). When the rescale of a stream
\* fails the loop stops there; the streams rescaled before it are any subset of
\* the others, HashMap order being unspecified.
recv_settings(c, f) ==
    IF decode_type(f.type) # Settings THEN {[c |-> c, res |-> "Protocol"]}
    ELSE IF f.stream_id # CONNECTION_STREAM_ID THEN {[c |-> c, res |-> "Protocol"]}
    ELSE IF is_ack(f.flags) THEN {[c |-> c, res |-> "Ok"]}
    ELSE
      LET settings == parse_settings(f.payload, 0, Settings_new) IN
      IF ~validate(settings) THEN {[c |-> c, res |-> "InvalidSettings"]}
      ELSE
        LET c1 == [c EXCEPT !.remote_settings = merge(@, settings),
                            !.max_concurrent_streams = settings.max_concurrent_streams]
            new_size == settings.initial_window_size
            ids == DOMAIN c.streams
            bad == {s \in ids : ~update_initial_size(c.streams[s].send_window, new_size).ok}
            rescaled(S) ==
              [c1 EXCEPT !.streams =
                 [s \in ids |->
                    IF s \in S
                    THEN [c.streams[s] EXCEPT
                            !.send_window = update_initial_size(@, new_size).w]
                    ELSE c.streams[s]]]
        IN  IF new_size = None THEN {[c |-> Write(c1, SettingsAckFrame), res |-> "Ok"]}
            ELSE IF bad = {}
            THEN {[c |-> Write(rescaled(ids), SettingsAckFrame), res |-> "Ok"]}
            ELSE {[c |-> rescaled(S), res |-> "FlowControl"] : S \in SUBSET (ids \ bad)}

\* H2Client::send_headers for a header block of len bytes.
H2Client_send_headers(c, stream_id, end_stream, len) ==
    LET known == stream_id \in DOMAIN c.streams
        r == H2Stream_send_headers(c.streams[stream_id], end_stream)
        flags == END_HEADERS + (IF end_stream THEN END_STREAM ELSE 0)
        w == Written(Headers, flags, stream_id, len, <<>>)
    IN  IF known /\ ~r.ok THEN [c |-> c, res |-> "Protocol"]
        ELSE IF known
        THEN [c |-> Write([c EXCEPT !.streams[stream_id] = r.s], w), res |-> "Ok"]
        ELSE [c |-> Write(c, w), res |-> "Ok"]

\* H2Client::send_data for a DATA frame of len bytes.
H2Client_send_data(c, stream_id, len, end_stream) ==
    LET cc == consume(c.flow_control.send_window, len)
        c1 == [c EXCEPT !.flow_control.send_window = cc.w]
        known == stream_id \in DOMAIN c.streams
        r == H2Stream_send_data(c.streams[stream_id], len, end_stream)
        c2 == [c1 EXCEPT !.streams[stream_id] = r.s]
        w == Written(Data, IF end_stream THEN END_STREAM ELSE 0, stream_id, len, <<>>)
    IN  IF cc.granted = 0 THEN [c |-> c1, res |-> "FlowControl"]
        ELSE IF known /\ ~r.ok THEN [c |-> c1, res |-> "StreamClosed"]
        ELSE IF known /\ r.sendable = 0 THEN [c |-> c2, res |-> "FlowControl"]
        ELSE IF known THEN [c |-> Write(c2, w), res |-> "Ok"]
        ELSE [c |-> Write(c1, w), res |-> "Ok"]

\* Length of the HPACK block request() builds: the four pseudo-headers, each one
\* byte or more; only the frame's presence matters to the driver.
RequestBlockLen == 4

\* H2Client::request from create_stream to the call of recv_response: res is
\* "Pending" when recv_response(id) is entered, else the error returned.
emit_request(c, body_len) ==
    LET cs == create_stream(c)
        has_body == body_len # 0
        sh == H2Client_send_headers(cs.c, cs.id, ~has_body, RequestBlockLen)
        sd == H2Client_send_data(sh.c, cs.id, body_len, TRUE)
    IN  IF ~cs.ok THEN [c |-> c, res |-> "TooManyStreams", id |-> 0]
        ELSE IF sh.res # "Ok" THEN [c |-> sh.c, res |-> sh.res, id |-> cs.id]
        ELSE IF ~has_body THEN [c |-> sh.c, res |-> "Pending", id |-> cs.id]
        ELSE IF sd.res # "Ok" THEN [c |-> sd.c, res |-> sd.res, id |-> cs.id]
        ELSE [c |-> sd.c, res |-> "Pending", id |-> cs.id]

\* H2Response as recv_response creates it
H2Response_new(stream_id) ==
    [stream_id |-> stream_id, status |-> 0, headers |-> <<>>, body |-> <<>>]

\* The for loop over the decoded fields: :status sets the status, any other
\* name is inserted into the headers map.
RECURSIVE apply_fields(_, _)
apply_fields(resp, fields) ==
    IF fields = <<>> THEN resp
    ELSE LET h == Head(fields)
             next == IF h.name = ":status"
                     THEN [resp EXCEPT !.status = parse_status(h.value)]
                     ELSE [resp EXCEPT !.headers =
                             [n \in DOMAIN resp.headers \cup {h.name} |->
                                IF n = h.name THEN h.value ELSE resp.headers[n]]]
         IN  apply_fields(next, Tail(fields))

\* One pass of recv_response's loop once recv_frame has returned frame f. go is
\* "continue" (read the next frame), "settings" (recv_settings is called, which
\* reads the next frame itself), "Ok" (the loop ends and the response is
\* returned) or the error kind returned; id is the stream id an error names.
Step(c, resp, hr, go) == [c |-> c, resp |-> resp, hr |-> hr, go |-> go, id |-> 0]

recv_response_frame(c, stream_id, resp, hr, f) ==
    LET frame_type == decode_type(f.type)
        recv_stream_id == f.stream_id
        ended == IF is_end_stream(f.flags) THEN "Ok" ELSE "continue"
    IN
    IF recv_stream_id # stream_id /\ recv_stream_id # CONNECTION_STREAM_ID
    THEN Step(c, resp, hr, "continue")
    ELSE
    CASE frame_type = Headers ->
           IF hr THEN Step(c, resp, hr, "continue")
           ELSE LET decoded == hpack_decode(f.payload)
                IN  IF ~decoded.ok THEN Step(c, resp, hr, "Compression")
                    ELSE Step(c, apply_fields(resp, decoded.fields), TRUE, ended)
      [] frame_type = Data ->
           LET c1 == [c EXCEPT !.flow_control.recv_window = decrease(@, Len(f.payload))]
               c2 == IF stream_id \in DOMAIN c.streams
                     THEN [c1 EXCEPT !.streams[stream_id].recv_window =
                                        decrease(@, Len(f.payload))]
                     ELSE c1
           IN  Step(c2, [resp EXCEPT !.body = f.payload], hr, ended)
      [] frame_type = Settings -> Step(c, resp, hr, "settings")
      [] frame_type = WindowUpdate ->
           IF Len(f.payload) # 4 THEN Step(c, resp, hr, "FrameSize")
           ELSE
             LET increment == u32_from_be_bytes(f.payload)
                 ic == increase(c.flow_control.send_window, increment)
                 is == increase(c.streams[recv_stream_id].send_window, increment)
             IN  IF recv_stream_id = CONNECTION_STREAM_ID
                 THEN IF ic.ok
                      THEN Step([c EXCEPT !.flow_control.send_window = ic.w], resp, hr,
                                "continue")
                      ELSE Step(c, resp, hr, "FlowControl")
                 ELSE IF recv_stream_id \in DOMAIN c.streams
                 THEN IF is.ok
                      THEN Step([c EXCEPT !.streams[recv_stream_id].send_window = is.w],
                                resp, hr, "continue")
                      ELSE Step(c, resp, hr, "FlowControl")
                 ELSE Step(c, resp, hr, "continue")
      [] frame_type = Ping ->
           IF is_ack(f.flags) THEN Step(c, resp, hr, "continue")
           ELSE IF Len(f.payload) < 8 THEN Step(c, resp, hr, "Panic")
           ELSE Step(Write(c, PingFrame_ack(SubSeq(f.payload, 1, 8))),
                     resp, hr, "continue")
      [] frame_type = Goaway -> Step(c, resp, hr, "ConnectionClosed")
      [] frame_type = RstStream ->
           [Step(IF recv_stream_id \in DOMAIN c.streams
                 THEN [c EXCEPT !.streams[recv_stream_id] = H2Stream_close(@)]
                 ELSE c,
                 resp, hr, "Cancel")
            EXCEPT !.id = recv_stream_id]
      [] OTHER -> Step(c, resp, hr, "continue")

\* H2Client::send_rst_stream: the frame is written, then the stream, if the
\* manager knows it, is closed.
H2Client_send_rst_stream(c, stream_id, error_code) ==
    LET w == Written(RstStream, 0, stream_id, 4, U32Bytes(Wide(error_code)))
        c1 == Write(c, w)
    IN  IF stream_id \in DOMAIN c.streams
        THEN [c1 EXCEPT !.streams[stream_id] = H2Stream_close(@)]
        ELSE c1

\* H2Client::send_window_update: the frame is written (its increment without
\* the reserved bit), then increase_send_window is applied to the connection
\* for stream 0 and else to the stream, if the manager knows it; res is
\* "FlowControl" when the increase fails.
H2Client_send_window_update(c, stream_id, increment) ==
    LET masked == [hi |-> increment.hi % 32768, lo |-> increment.lo]
        c1 == Write(c, Written(WindowUpdate, 0, stream_id, 4, U32Bytes(masked)))
        ic == increase(c.flow_control.send_window, increment)
        is == increase(c.streams[stream_id].send_window, increment)
    IN  IF stream_id = CONNECTION_STREAM_ID
        THEN IF ic.ok THEN [c |-> [c1 EXCEPT !.flow_control.send_window = ic.w], res |-> "Ok"]
             ELSE [c |-> c1, res |-> "FlowControl"]
        ELSE IF stream_id \in DOMAIN c.streams
        THEN IF is.ok THEN [c |-> [c1 EXCEPT !.streams[stream_id].send_window = is.w],
                            res |-> "Ok"]
             ELSE [c |-> c1, res |-> "FlowControl"]
        ELSE [c |-> c1, res |-> "Ok"]

\* ------------------------------------------------------------ the inputs

\* "Hello, HTTP/2!", the 14-byte body of the simple-GET scenario
HelloBody == <<72, 101, 108, 108, 111, 44, 32, 72, 84, 84, 80, 47, 50, 33>>
\* The :status 200 header block (indexed field 8)
Status200 == <<136>>
\* A SETTINGS payload carrying INITIAL_WINDOW_SIZE = v
IwsPayload(v) == <<0, 4>> \o U32Bytes(Wide(v))

\* The frames of the peer, by what they are.
PeerSettings == Frame(Settings, 0, 0, <<>>)
PeerSettingsIws(v) == Frame(Settings, 0, 0, IwsPayload(v))
PeerSettingsAck == Frame(Settings, ACK, 0, <<>>)
PeerHeaders(id, end_stream) ==
    Frame(Headers, END_HEADERS + (IF end_stream THEN END_STREAM ELSE 0), id, Status200)
PeerData(id, end_stream, payload) ==
    Frame(Data, IF end_stream THEN END_STREAM ELSE 0, id, payload)
PeerWindowUpdate(id, increment) == Frame(WindowUpdate, 0, id, U32Bytes(Wide(increment)))
PeerGoaway(last_stream_id) == Frame(Goaway, 0, 0, U32Bytes(Wide(last_stream_id)) \o U32Bytes(Wide(0)))
\* RST_STREAM with error code CANCEL (8)
PeerRstStream(id) == Frame(RstStream, 0, id, U32Bytes(Wide(8)))
\* The opaque data of the peer's PINGs
PingData == <<1, 2, 3, 4, 5, 6, 7, 8>>
PeerPing(ack) == Frame(Ping, IF ack THEN ACK ELSE 0, 0, PingData)

\* Inputs of the response-assembly specification: what the peer may send, and
\* the request bodies (by length) the test may pass.
ResponseFrames ==
    { PeerSettings, PeerSettingsAck,
      PeerHeaders(1, FALSE), PeerHeaders(1, TRUE), PeerHeaders(3, TRUE),
      PeerData(1, FALSE, <<72, 101>>), PeerData(1, TRUE, HelloBody),
      PeerGoaway(1) }
ResponseBodyLens == {0}

\* Inputs of the flow-control specification: bodies that fit every window and
\* one larger than the default window.
FlowFrames ==
    { PeerSettingsIws(100), PeerSettingsIws(200), PeerSettingsAck,
      PeerHeaders(1, TRUE), PeerHeaders(3, TRUE),
      PeerWindowUpdate(0, 1000), PeerWindowUpdate(1, 1000) }
FlowBodyLens == {100, 70000}
\* The low-level send_data calls of the flow-control specification.
FlowSendIds == {1}
FlowSendLens == {100}

\* Inputs of the control-frame specification: resets and pings around
\* bodiless requests.
ControlFrames ==
    { PeerSettings, PeerRstStream(1), PeerPing(FALSE), PeerPing(TRUE),
      PeerHeaders(1, TRUE), PeerHeaders(3, TRUE) }
ControlBodyLens == {0}

\* ------------------------------------------------------------------ actions

Init ==
    /\ connected = FALSE
    /\ streams = <<>>
    /\ next_stream_id = 1
    /\ max_concurrent_streams = None
    /\ flow_control = ConnectionFlowControl_new
    /\ remote_settings = Settings_default_settings
    /\ pc = "idle"
    /\ cur = 0
    /\ response = H2Response_new(0)
    /\ headers_received = FALSE
    /\ result = [res |-> "none", id |-> 0, response |-> H2Response_new(0)]
    /\ out = <<>>
    /\ wire = <<>>
    /\ sent = <<>>
    /\ session = HttpSession_new
    /\ calls = <<>>

\* The call in progress (the last one issued).
CurCall == calls[Len(calls)]

\* The test issues an API call; the client is single-threaded, so only between
\* calls. The log with the new call added:
Issue(o, id, len) ==
    Append(calls, [op |-> o, id |-> id, len |-> len, res |-> "pending"])

CanCall ==
    /\ pc = "idle"
    /\ Len(calls) < MaxCalls
    /\ UNCHANGED << wire, sent, session >>

\* The call in progress (the last of log) returns.
Finish(log, res, id, resp) ==
    /\ pc' = "idle"
    /\ cur' = 0
    /\ response' = H2Response_new(0)
    /\ headers_received' = FALSE
    /\ result' = [res |-> res, id |-> id, response |-> resp]
    /\ calls' = [log EXCEPT ![Len(log)].res = res]

\* The call in progress blocks in recv_frame at position p.
Block(log, p) ==
    /\ pc' = p
    /\ calls' = log
    /\ UNCHANGED << cur, response, headers_received, result >>

\* connect() up to recv_settings: preface, then the local SETTINGS.
begin_connect(c) == Write(Write(c, PrefaceWritten), LocalSettingsFrame)

\* request() from create_stream on.
StartRequest(c, log, body_len) ==
    LET e == emit_request(c, body_len)
    IN  /\ Install(e.c)
        /\ IF e.res = "Pending"
           THEN /\ pc' = "response"
                /\ calls' = log
                /\ cur' = e.id
                /\ response' = H2Response_new(e.id)
                /\ headers_received' = FALSE
                /\ UNCHANGED result
           ELSE Finish(log, e.res, e.id, H2Response_new(0))

Connect ==
    /\ CanCall
    /\ IF connected
       THEN /\ Install(Client)
            /\ Finish(Issue("connect", 0, 0), "Ok", 0, H2Response_new(0))
       ELSE /\ Install(begin_connect(Client))
            /\ Block(Issue("connect", 0, 0), "connect")

Request(body_len) ==
    /\ CanCall
    /\ IF connected
       THEN StartRequest(Client, Issue("request", 0, body_len), body_len)
       ELSE /\ Install(begin_connect(Client))
            /\ Block(Issue("request", 0, body_len), "connect")

RecvSettings ==
    /\ CanCall
    /\ Install(Client)
    /\ Block(Issue("recv_settings", 0, 0), "recv_settings")

SendData(stream_id, len, end_stream) ==
    /\ CanCall
    /\ LET r == H2Client_send_data(Client, stream_id, len, end_stream)
       IN  /\ Install(r.c)
           /\ Finish(Issue("send_data", stream_id, len), r.res, stream_id,
                     H2Response_new(0))

\* send_rst_stream(stream_id, error_code) as the test calls it.
SendRstStream(stream_id, error_code) ==
    /\ CanCall
    /\ Install(H2Client_send_rst_stream(Client, stream_id, error_code))
    /\ Finish(Issue("send_rst_stream", stream_id, 0), "Ok", stream_id, H2Response_new(0))

\* send_window_update(stream_id, increment) as the test calls it.
SendWindowUpdate(stream_id, increment) ==
    /\ CanCall
    /\ LET r == H2Client_send_window_update(Client, stream_id, increment)
       IN  /\ Install(r.c)
           /\ Finish(Issue("send_window_update", stream_id, Narrow(increment)), r.res,
                     stream_id, H2Response_new(0))

\* recv_response(stream_id) as the test calls it: the loop starts with an empty
\* response and blocks in recv_frame.
RecvResponse(stream_id) ==
    /\ CanCall
    /\ Install(Client)
    /\ pc' = "response"
    /\ cur' = stream_id
    /\ response' = H2Response_new(stream_id)
    /\ headers_received' = FALSE
    /\ calls' = Issue("recv_response", stream_id, 0)
    /\ UNCHANGED result

\* recv_frame returns the next frame of the transport.
Read ==
    /\ wire # <<>>
    /\ wire' = Tail(wire)
    /\ UNCHANGED << sent, session >>

\* connect() is in recv_settings and a frame arrives; a connect() made by
\* request() goes on with the request.
ConnectRecv ==
    /\ pc = "connect"
    /\ Read
    /\ \E o \in recv_settings(Client, Head(wire)) :
         IF o.res # "Ok"
         THEN Install(o.c) /\ Finish(calls, o.res, 0, H2Response_new(0))
         ELSE IF CurCall.op = "connect"
         THEN /\ Install([o.c EXCEPT !.connected = TRUE])
              /\ Finish(calls, "Ok", 0, H2Response_new(0))
         ELSE StartRequest([o.c EXCEPT !.connected = TRUE], calls, CurCall.len)

\* A direct recv_settings() call gets its frame.
RecvSettingsRecv ==
    /\ pc = "recv_settings"
    /\ Read
    /\ \E o \in recv_settings(Client, Head(wire)) :
         Install(o.c) /\ Finish(calls, o.res, 0, H2Response_new(0))

\* recv_response's loop gets a frame.
ResponseRecv ==
    /\ pc = "response"
    /\ Read
    /\ LET s == recv_response_frame(Client, cur, response, headers_received, Head(wire))
       IN  /\ Install(s.c)
           /\ CASE s.go \in {"continue", "settings"} ->
                     /\ pc' = IF s.go = "settings" THEN "resp_settings" ELSE "response"
                     /\ response' = s.resp
                     /\ headers_received' = s.hr
                     /\ UNCHANGED << cur, result, calls >>
                [] s.go = "Ok" -> Finish(calls, "Ok", cur, s.resp)
                [] OTHER -> Finish(calls, s.go, s.id, H2Response_new(0))

\* recv_settings(), called by recv_response's SETTINGS arm, gets the next frame.
ResponseSettingsRecv ==
    /\ pc = "resp_settings"
    /\ Read
    /\ \E o \in recv_settings(Client, Head(wire)) :
         /\ Install(o.c)
         /\ IF o.res = "Ok" THEN Block(calls, "response")
            ELSE Finish(calls, o.res, 0, H2Response_new(0))

\* The session's poll times out (or the peer closed): recv_frame fails and the
\* call in progress returns the error.
ReadFail ==
    /\ pc # "idle"
    /\ wire = <<>>
    /\ Install(Client)
    /\ Finish(calls, "Io", 0, H2Response_new(0))
    /\ UNCHANGED << wire, sent, session >>

\* The peer puts a frame on the transport.
PeerSend(f) ==
    /\ Len(sent) < MaxPeerFrames
    /\ Len(wire) < MaxWire
    /\ wire' = Append(wire, f)
    /\ sent' = Append(sent, f)
    /\ UNCHANGED << connected, streams, next_stream_id, max_concurrent_streams,
                    flow_control, remote_settings, pc, cur, response,
                    headers_received, result, out, session, calls >>

\* Response assembly: connect and bodiless requests against a peer that sends
\* the handshake frames, responses and GOAWAY.
Next ==
    \/ Connect
    \/ \E body_len \in ResponseBodyLens : Request(body_len)
    \/ ConnectRecv
    \/ ResponseRecv
    \/ ResponseSettingsRecv
    \/ ReadFail
    \/ \E f \in ResponseFrames : PeerSend(f)

Spec == Init /\ [][Next]_vars

\* Flow control: requests with bodies and the low-level calls against a peer
\* that changes INITIAL_WINDOW_SIZE and sends WINDOW_UPDATE.
NextFlow ==
    \/ Connect
    \/ \E body_len \in FlowBodyLens : Request(body_len)
    \/ RecvSettings
    \/ \E id \in FlowSendIds, len \in FlowSendLens : SendData(id, len, FALSE)
    \/ ConnectRecv
    \/ RecvSettingsRecv
    \/ ResponseRecv
    \/ ResponseSettingsRecv
    \/ ReadFail
    \/ \E f \in FlowFrames : PeerSend(f)

SpecFlow == Init /\ [][NextFlow]_vars

\* ---------------------------------------------- a stream on its own

\* Payload sizes of the DATA frames the test applies to a stream.
StreamDataLens == {100}

\* H2Stream::new(1), held at id 1 of an otherwise untouched client.
InitStream ==
    /\ connected = FALSE
    /\ streams = (1 :> H2Stream_new)
    /\ next_stream_id = 1
    /\ max_concurrent_streams = None
    /\ flow_control = ConnectionFlowControl_new
    /\ remote_settings = Settings_default_settings
    /\ pc = "idle"
    /\ cur = 0
    /\ response = H2Response_new(0)
    /\ headers_received = FALSE
    /\ result = [res |-> "none", id |-> 0, response |-> H2Response_new(0)]
    /\ out = <<>>
    /\ wire = <<>>
    /\ sent = <<>>
    /\ session = HttpSession_new
    /\ calls = <<>>

\* One operation on the stream: it becomes s, and the operation is logged with
\* its END_STREAM argument (where it has one) and what it returned.
StreamOp(o, len, es, s, res) ==
    /\ Len(calls) < MaxOps
    /\ streams' = [streams EXCEPT ![1] = s]
    /\ calls' = Append(calls, [op |-> o, id |-> 1, len |-> len, es |-> es, res |-> res])
    /\ UNCHANGED << connected, next_stream_id, max_concurrent_streams, flow_control,
                    remote_settings, pc, cur, response, headers_received, result,
                    out, wire, sent, session >>

StreamSendHeaders(end_stream) ==
    LET r == H2Stream_send_headers(streams[1], end_stream)
    IN  StreamOp("send_headers", 0, end_stream, r.s, IF r.ok THEN "Ok" ELSE "Protocol")

StreamSendData(data_len, end_stream) ==
    LET r == H2Stream_send_data(streams[1], data_len, end_stream)
    IN  StreamOp("send_data", data_len, end_stream, r.s,
                 IF r.ok THEN "Ok" ELSE "StreamClosed")

StreamReceiveHeaders(end_stream) ==
    LET r == H2Stream_receive_headers(streams[1], end_stream)
    IN  StreamOp("receive_headers", 0, end_stream, r.s,
                 IF r.ok THEN "Ok" ELSE "Protocol")

StreamReceiveData(data_len, end_stream) ==
    LET r == H2Stream_receive_data(streams[1], data_len, end_stream)
    IN  StreamOp("receive_data", data_len, end_stream, r.s,
                 IF r.ok THEN "Ok" ELSE "StreamClosed")

StreamClose == StreamOp("close", 0, FALSE, H2Stream_close(streams[1]), "Ok")

StreamReset == StreamOp("reset", 0, FALSE, H2Stream_reset(streams[1]), "Ok")

StreamSetState(state) ==
    StreamOp("set_state", 0, FALSE, set_state(streams[1], state), "Ok")

NextStream ==
    \/ \E end_stream \in BOOLEAN : StreamSendHeaders(end_stream)
    \/ \E data_len \in StreamDataLens, end_stream \in BOOLEAN :
         StreamSendData(data_len, end_stream)
    \/ \E end_stream \in BOOLEAN : StreamReceiveHeaders(end_stream)
    \/ \E data_len \in StreamDataLens, end_stream \in BOOLEAN :
         StreamReceiveData(data_len, end_stream)
    \/ StreamClose
    \/ StreamReset
    \/ \E state \in StreamStates : StreamSetState(state)

SpecStream == InitStream /\ [][NextStream]_vars

\* ---------------------------------------- a stream manager on its own

\* The caps the test sets, and the stream ids of the inbound frames it feeds
\* to get_or_create_stream.
ManagerCaps == {None, Wide(1), Wide(2)}
ManagerPeerIds == {2, 4}

\* StreamManager::new(is_client) inside an otherwise untouched client; the log
\* starts with the construction.
InitManager ==
    /\ connected = FALSE
    /\ streams = <<>>
    /\ \E is_client \in BOOLEAN :
         /\ next_stream_id = IF is_client THEN 1 ELSE 2
         /\ calls = << [op |-> "new", id |-> 0, res |-> "Ok", is_client |-> is_client] >>
    /\ max_concurrent_streams = None
    /\ flow_control = ConnectionFlowControl_new
    /\ remote_settings = Settings_default_settings
    /\ pc = "idle"
    /\ cur = 0
    /\ response = H2Response_new(0)
    /\ headers_received = FALSE
    /\ result = [res |-> "none", id |-> 0, response |-> H2Response_new(0)]
    /\ out = <<>>
    /\ wire = <<>>
    /\ sent = <<>>
    /\ session = HttpSession_new

\* One operation on the manager: its fields become those of c, and the
\* operation is logged with the id it names or returns and what it returned.
ManagerOp(o, id, c, res) ==
    /\ Len(calls) <= MaxOps
    /\ streams' = c.streams
    /\ next_stream_id' = c.next_stream_id
    /\ max_concurrent_streams' = c.max_concurrent_streams
    /\ calls' = Append(calls, [op |-> o, id |-> id, res |-> res])
    /\ UNCHANGED << connected, flow_control, remote_settings, pc, cur, response,
                    headers_received, result, out, wire, sent, session >>

ManagerCreateStream ==
    LET r == create_stream(Client)
    IN  ManagerOp("create_stream", r.id, r.c, IF r.ok THEN "Ok" ELSE "TooManyStreams")

ManagerSetMaxConcurrentStreams(max) ==
    ManagerOp("set_max_concurrent_streams", 0, set_max_concurrent_streams(Client, max),
              "Ok")

ManagerGetOrCreateStream(stream_id) ==
    ManagerOp("get_or_create_stream", stream_id,
              get_or_create_stream(Client, stream_id), "Ok")

\* get_stream_mut(stream_id), then close() on the stream found.
ManagerCloseStream(stream_id) ==
    /\ stream_id \in DOMAIN streams
    /\ ManagerOp("close", stream_id,
                 [Client EXCEPT !.streams[stream_id] = H2Stream_close(@)], "Ok")

NextManager ==
    \/ ManagerCreateStream
    \/ \E max \in ManagerCaps : ManagerSetMaxConcurrentStreams(max)
    \/ \E stream_id \in ManagerPeerIds : ManagerGetOrCreateStream(stream_id)
    \/ \E stream_id \in DOMAIN streams : ManagerCloseStream(stream_id)

SpecManager == InitManager /\ [][NextManager]_vars

\* ------------------------------------- a flow-control window on its own

\* Initial sizes, amounts asked of consume and increments given to increase:
\* nothing, part of the window, the whole window, and the extremes of the
\* argument types that the window arithmetic can be driven to.
WindowInitialSizes == {Wide(0), Wide(100)}
WindowAmounts == {0, 60, 100, usize_MAX}
WindowIncrements == {Wide(0), Wide(50), Wide(2147483000), u32_MAX}

\* FlowControlWindow::with_initial_size(I) for an I of sizes, held as the send
\* window of an otherwise untouched client.
InitWindowOf(sizes) ==
    /\ connected = FALSE
    /\ streams = <<>>
    /\ next_stream_id = 1
    /\ max_concurrent_streams = None
    /\ \E initial_size \in sizes :
          flow_control = [ConnectionFlowControl_new EXCEPT
                              !.send_window = with_initial_size(initial_size)]
    /\ remote_settings = Settings_default_settings
    /\ pc = "idle"
    /\ cur = 0
    /\ response = H2Response_new(0)
    /\ headers_received = FALSE
    /\ result = [res |-> "none", id |-> 0, response |-> H2Response_new(0)]
    /\ out = <<>>
    /\ wire = <<>>
    /\ sent = <<>>
    /\ session = HttpSession_new
    /\ calls = <<>>

InitWindow == InitWindowOf(WindowInitialSizes)

\* One operation on the window: it becomes w, and the operation is logged with
\* its argument, the amount it granted and whether it succeeded.
WindowOp(o, len, w, granted, ok) ==
    /\ Len(calls) < MaxOps
    /\ flow_control' = [flow_control EXCEPT !.send_window = w]
    /\ calls' = Append(calls, [op |-> o, len |-> len, granted |-> granted, ok |-> ok])
    /\ UNCHANGED << connected, streams, next_stream_id, max_concurrent_streams,
                    remote_settings, pc, cur, response, headers_received, result,
                    out, wire, sent, session >>

WindowConsume(amount) ==
    LET r == consume(flow_control.send_window, amount)
    IN  WindowOp("consume", amount, r.w, r.granted, TRUE)

WindowIncrease(increment) ==
    LET r == increase(flow_control.send_window, increment)
    IN  WindowOp("increase", increment, r.w, 0, r.ok)

NextWindow ==
    \/ \E amount \in WindowAmounts : WindowConsume(amount)
    \/ \E increment \in WindowIncrements : WindowIncrease(increment)

SpecWindow == InitWindow /\ [][NextWindow]_vars

\* Every operation of the window: the initial sizes go up to the largest u32,
\* the increments up to the largest window, and the new initial sizes of
\* update_initial_size lie below and above the ones the window starts with.
WindowOpsInitialSizes == {Wide(100), Wide(max_size), u32_MAX}
WindowOpsIncrements == {Wide(50), Wide(max_size)}
WindowOpsDecreases == {200}
WindowOpsNewInitialSizes ==
    {Wide(0), Wide(200), Plus(Wide(max_size), Wide(200)), u32_MAX}

InitWindowOps == InitWindowOf(WindowOpsInitialSizes)

WindowDecrease(amount) ==
    WindowOp("decrease", amount, decrease(flow_control.send_window, amount), 0, TRUE)

WindowUpdateInitialSize(new_initial_size) ==
    LET r == update_initial_size(flow_control.send_window, new_initial_size)
    IN  WindowOp("update_initial_size", new_initial_size, r.w, 0, r.ok)

WindowReset == WindowOp("reset", 0, reset(flow_control.send_window), 0, TRUE)

NextWindowOps ==
    \/ \E amount \in WindowAmounts : WindowConsume(amount)
    \/ \E increment \in WindowOpsIncrements : WindowIncrease(increment)
    \/ \E amount \in WindowOpsDecreases : WindowDecrease(amount)
    \/ \E new_initial_size \in WindowOpsNewInitialSizes :
          WindowUpdateInitialSize(new_initial_size)
    \/ WindowReset

SpecWindowOps == InitWindowOps /\ [][NextWindowOps]_vars

\* Control frames: RST_STREAM and PING read while a response is awaited.
NextControl ==
    \/ Connect
    \/ \E body_len \in ControlBodyLens : Request(body_len)
    \/ ConnectRecv
    \/ ResponseRecv
    \/ ResponseSettingsRecv
    \/ ReadFail
    \/ \E f \in ControlFrames : PeerSend(f)

SpecControl == Init /\ [][NextControl]_vars

\* Inbound DATA: the peer answers with DATA frames as large as the client's
\* SETTINGS_MAX_FRAME_SIZE allows, three of which take more than half of the
\* receive windows.
FullFrameBody == [i \in 1..DEFAULT_MAX_FRAME_SIZE |-> 0]
InboundFrames ==
    { PeerSettings, PeerData(1, FALSE, FullFrameBody), PeerData(1, TRUE, FullFrameBody) }
InboundBodyLens == {0}

NextInbound ==
    \/ Connect
    \/ \E body_len \in InboundBodyLens : Request(body_len)
    \/ ConnectRecv
    \/ ResponseRecv
    \/ ResponseSettingsRecv
    \/ ReadFail
    \/ \E f \in InboundFrames : PeerSend(f)

SpecInbound == Init /\ [][NextInbound]_vars

\* Malformed frames: WINDOW_UPDATE with a zero increment, SETTINGS and PING
\* on a stream, and a SETTINGS payload of 7 bytes (one entry and a byte).
PeerSettingsOn(id) == Frame(Settings, 0, id, <<>>)
PeerPingOn(id) == Frame(Ping, 0, id, PingData)
PeerSettingsOdd == Frame(Settings, 0, 0, IwsPayload(100) \o <<0>>)
BadFrames ==
    { PeerSettings, PeerHeaders(1, TRUE),
      PeerWindowUpdate(0, 0), PeerWindowUpdate(1, 0),
      PeerSettingsOn(1), PeerPingOn(1), PeerSettingsOdd }
BadBodyLens == {0}

NextBadFrames ==
    \/ Connect
    \/ \E body_len \in BadBodyLens : Request(body_len)
    \/ ConnectRecv
    \/ ResponseRecv
    \/ ResponseSettingsRecv
    \/ ReadFail
    \/ \E f \in BadFrames : PeerSend(f)

SpecBadFrames == Init /\ [][NextBadFrames]_vars

\* Foreign frames: while the response to stream 1 is awaited the peer sends
\* HEADERS and DATA on stream 0 and on stream 3 besides the response itself.
ForeignFrames ==
    { PeerSettings, PeerHeaders(1, TRUE),
      PeerHeaders(0, TRUE), PeerData(0, TRUE, <<72, 101>>),
      PeerHeaders(3, TRUE), PeerData(3, TRUE, <<72, 101>>) }
ForeignBodyLens == {0}

NextForeign ==
    \/ Connect
    \/ \E body_len \in ForeignBodyLens : Request(body_len)
    \/ ConnectRecv
    \/ ResponseRecv
    \/ ResponseSettingsRecv
    \/ ReadFail
    \/ \E f \in ForeignFrames : PeerSend(f)

SpecForeign == Init /\ [][NextForeign]_vars

\* Cancellation: the test resets stream 1 and calls recv_response on it; the
\* peer sends the handshake SETTINGS and a response to stream 1.
CancelIds == {1}
CancelFrames == { PeerSettings, PeerHeaders(1, TRUE) }
CancelBodyLens == {0}

NextCancel ==
    \/ Connect
    \/ \E body_len \in CancelBodyLens : Request(body_len)
    \/ \E stream_id \in CancelIds : SendRstStream(stream_id, CANCEL)
    \/ \E stream_id \in CancelIds : RecvResponse(stream_id)
    \/ ConnectRecv
    \/ ResponseRecv
    \/ ResponseSettingsRecv
    \/ ReadFail
    \/ \E f \in CancelFrames : PeerSend(f)

SpecCancel == Init /\ [][NextCancel]_vars

\* Settings out of range: INITIAL_WINDOW_SIZE 2^31 and u32::MAX, MAX_FRAME_SIZE
\* 1024 and 16777216 (the values of test_settings_validation), each in a
\* SETTINGS frame of its own, and a frame in which a valid INITIAL_WINDOW_SIZE
\* follows an invalid one.
TooLargeWindow == [hi |-> 32768, lo |-> 0]
TooSmallFrame == 1024
TooLargeFrame == 16777216
SettingsEntry(id, value) == <<id \div 256, id % 256>> \o U32Bytes(value)
PeerSettingsOf(payload) == Frame(Settings, 0, 0, payload)
SettingsFrames ==
    { PeerSettings, PeerSettingsIws(100),
      PeerSettingsOf(SettingsEntry(4, TooLargeWindow)),
      PeerSettingsOf(SettingsEntry(4, u32_MAX)),
      PeerSettingsOf(SettingsEntry(5, Wide(TooSmallFrame))),
      PeerSettingsOf(SettingsEntry(3, Wide(1)) \o SettingsEntry(5, Wide(TooLargeFrame))),
      PeerSettingsOf(SettingsEntry(4, TooLargeWindow) \o SettingsEntry(4, Wide(100))) }
SettingsBodyLens == {0}

NextSettings ==
    \/ Connect
    \/ \E body_len \in SettingsBodyLens : Request(body_len)
    \/ RecvSettings
    \/ ConnectRecv
    \/ RecvSettingsRecv
    \/ ResponseRecv
    \/ ResponseSettingsRecv
    \/ ReadFail
    \/ \E f \in SettingsFrames : PeerSend(f)

SpecSettings == Init /\ [][NextSettings]_vars

\* Credit: the test announces credit to the peer on the connection and on
\* stream 1, and the peer gives credit by WINDOW_UPDATE and by a larger
\* INITIAL_WINDOW_SIZE.
CreditIds == {0, 1}
CreditIncrements == {Wide(1000)}
CreditFrames ==
    { PeerSettings, PeerSettingsIws(70000), PeerWindowUpdate(1, 1000), PeerHeaders(1, TRUE) }
CreditBodyLens == {0}

NextCredit ==
    \/ Connect
    \/ \E body_len \in CreditBodyLens : Request(body_len)
    \/ \E stream_id \in CreditIds, increment \in CreditIncrements :
          SendWindowUpdate(stream_id, increment)
    \/ ConnectRecv
    \/ ResponseRecv
    \/ ResponseSettingsRecv
    \/ ReadFail
    \/ \E f \in CreditFrames : PeerSend(f)

SpecCredit == Init /\ [][NextCredit]_vars

\* The concurrency cap: a SETTINGS frame that announces MAX_CONCURRENT_STREAMS
\* 1, and SETTINGS frames that leave it out.
CapFrames ==
    { PeerSettingsOf(SettingsEntry(3, Wide(1))), PeerSettings, PeerSettingsIws(100),
      PeerHeaders(1, TRUE) }
CapBodyLens == {0}

NextCap ==
    \/ Connect
    \/ \E body_len \in CapBodyLens : Request(body_len)
    \/ RecvSettings
    \/ ConnectRecv
    \/ RecvSettingsRecv
    \/ ResponseRecv
    \/ ResponseSettingsRecv
    \/ ReadFail
    \/ \E f \in CapFrames : PeerSend(f)

SpecCap == Init /\ [][NextCap]_vars

\* ------------------------------------------------- the frame header codec

\* The headers encoded: every frame type and flags byte, stream ids up to
\* 2^31 - 1 and two with the reserved bit set, lengths up to 2^24 - 1 and one
\* beyond.
MAX_FRAME_SIZE == 16777215
CodecTypes == 0..9
CodecFlags == 0..255
CodecStreamIds ==
    { Wide(0), Wide(1), Wide(42), Wide(16777216), Wide(max_size),
      [hi |-> 32768, lo |-> 1], u32_MAX }
CodecLengths == {0, 1234, 65536, MAX_FRAME_SIZE, MAX_FRAME_SIZE + 1}

InitCodec ==
    /\ connected = FALSE
    /\ streams = <<>>
    /\ next_stream_id = 1
    /\ max_concurrent_streams = None
    /\ flow_control = ConnectionFlowControl_new
    /\ remote_settings = Settings_default_settings
    /\ pc = "idle"
    /\ cur = 0
    /\ response = H2Response_new(0)
    /\ headers_received = FALSE
    /\ result = [res |-> "none", id |-> 0, response |-> H2Response_new(0)]
    /\ out = <<>>
    /\ wire = <<>>
    /\ sent = <<>>
    /\ session = HttpSession_new
    /\ calls = <<>>

\* A header is encoded and decoded again, once; the log holds the round trip.
EncodeDecodeHeader(frame_type, flags, stream_id, length) ==
    /\ calls = <<>>
    /\ LET header == encode_header(frame_type, flags, stream_id, length)
       IN  calls' = << [op |-> "encode_header", frame_type |-> frame_type,
                        flags |-> flags, stream_id |-> stream_id, length |-> length,
                        header |-> header, decoded |-> decode_header(header)] >>
    /\ UNCHANGED << connected, streams, next_stream_id, max_concurrent_streams,
                    flow_control, remote_settings, pc, cur, response,
                    headers_received, result, out, wire, sent, session >>

NextCodec ==
    /\ calls = <<>>
    /\ \E frame_type \in CodecTypes, flags \in CodecFlags,
          stream_id \in CodecStreamIds, length \in CodecLengths :
          EncodeDecodeHeader(frame_type, flags, stream_id, length)

SpecCodec == InitCodec /\ [][NextCodec]_vars

\* Unknown frame types: the peer answers a request with frames whose type byte
\* is none of the ten (0x0a, the first free one, and 0xff), on the awaited
\* stream, with and without a payload and the 0x1 flag.
UnknownTypes == {10, 255}
PeerUnknown(type, flags, id, payload) == Frame(type, flags, id, payload)
UnknownFrames ==
    { PeerSettings, PeerHeaders(1, FALSE),
      PeerUnknown(10, 0, 1, <<72, 101>>), PeerUnknown(255, END_STREAM, 1, <<72>>) }
UnknownBodyLens == {0}

NextUnknown ==
    \/ Connect
    \/ \E body_len \in UnknownBodyLens : Request(body_len)
    \/ ConnectRecv
    \/ ResponseRecv
    \/ ResponseSettingsRecv
    \/ ReadFail
    \/ \E f \in UnknownFrames : PeerSend(f)

SpecUnknown == Init /\ [][NextUnknown]_vars

\* ------------------------------------------- the session, byte by byte

FRAME_HEADER_SIZE == 9

\* HttpSession::read into a buffer with room for `room` bytes: the poll for
\* readiness fails when nothing has arrived and the peer has not closed
\* (Err(Timeout)); else SessionOps::read returns the bytes that have arrived, as
\* many as fit, and none (n = 0) at the end of a closed transport.
HttpSession_read(s, room) ==
    IF s.inbound = <<>> /\ ~s.peer_closed THEN [res |-> "Timeout", s |-> s, bytes |-> <<>>]
    ELSE LET n == IF room < Len(s.inbound) THEN room ELSE Len(s.inbound)
         IN  [res |-> "Ok",
              s |-> [s EXCEPT !.inbound = SubSeq(@, n + 1, Len(@))],
              bytes |-> SubSeq(s.inbound, 1, n)]

\* HttpSession::write of buf: the poll for readiness times out (Err(Timeout))
\* or SessionOps::write takes the first n bytes, n from 1 to the length of buf
\* as the transport has room, and returns Ok(n). writable is the poll's answer.
HttpSession_write(s, buf, writable, n) ==
    IF ~writable THEN [res |-> "Timeout", s |-> s, n |-> 0]
    ELSE [res |-> "Ok", s |-> [s EXCEPT !.outbound = @ \o SubSeq(buf, 1, n)], n |-> n]

\* The locals of read_frame_from_session at its start.
ReadLocals == [header |-> <<>>, payload |-> <<>>]

\* read_frame_from_session from the return of one session.read (r) to the next
\* one or to its own return: go is "continue", "Ok" (frame is returned) or the
\* io::ErrorKind of the error returned. The header is decoded when its ninth
\* byte is in.
read_frame_from_session(l, r) ==
    LET in_header == Len(l.header) < FRAME_HEADER_SIZE
        header == l.header \o r.bytes
        decoded == decode_header(IF in_header THEN header ELSE l.header)
        payload == l.payload \o r.bytes
        frame(body) == Frame(decoded.frame_type, decoded.flags, decoded.stream_id, body)
        step(locals, go) == [l |-> locals, go |-> go, frame |-> Frame(0, 0, 0, <<>>)]
    IN  IF r.res # "Ok" THEN step(l, "Other")
        ELSE IF r.bytes = <<>> THEN step(l, "UnexpectedEof")
        ELSE IF in_header
        THEN IF Len(header) < FRAME_HEADER_SIZE
             THEN step([l EXCEPT !.header = header], "continue")
             ELSE IF decoded.length > MAX_FRAME_SIZE
             THEN step([l EXCEPT !.header = header], "InvalidData")
             ELSE IF decoded.length = 0
             THEN [step([l EXCEPT !.header = header], "Ok") EXCEPT !.frame = frame(<<>>)]
             ELSE step([l EXCEPT !.header = header], "continue")
        ELSE IF Len(payload) < decoded.length
             THEN step([l EXCEPT !.payload = payload], "continue")
             ELSE [step([l EXCEPT !.payload = payload], "Ok") EXCEPT !.frame = frame(payload)]

\* The room left in the buffer read_frame_from_session passes to session.read:
\* header[read..] or payload[read..].
ReadRoom(l) ==
    IF Len(l.header) < FRAME_HEADER_SIZE THEN FRAME_HEADER_SIZE - Len(l.header)
    ELSE decode_header(l.header).length - Len(l.payload)

\* FrameCodec::encode_ping_frame(PingFrame::new(data))
encode_ping_frame(data) == encode_header(Ping, 0, Wide(0), 8) \o data

\* FrameCodec::encode_rst_stream_frame
encode_rst_stream_frame(stream_id, error_code) ==
    encode_header(RstStream, 0, Wide(stream_id), 4) \o U32Bytes(Wide(error_code))

\* A frame of the peer as the bytes it puts on the transport.
FrameBytes(f) == encode_header(f.type, f.flags, Wide(f.stream_id), Len(f.payload)) \o f.payload

\* The peer's frames: SETTINGS and a PING. The number of bytes of a frame
\* that arrive ahead of the others, and byte counts a write may stop at.
SessionFrames == { PeerSettings, PeerPing(FALSE) }
ArriveCounts == {4}
WriteCounts == {5}
SessionSendIds == {1}

\* The test calls recv_frame.
RecvFrame ==
    /\ CanCall
    /\ Install(Client)
    /\ pc' = "recv_frame"
    /\ calls' = Append(calls, [op |-> "recv_frame", res |-> "pending", kind |-> "",
                               l |-> ReadLocals, frame |-> Frame(0, 0, 0, <<>>)])
    /\ UNCHANGED << cur, response, headers_received, result >>

\* recv_frame: one session.read of read_frame_from_session and what follows
\* it; an io::Error comes back as Error::Io.
RecvFrameRead ==
    /\ pc = "recv_frame"
    /\ LET r == HttpSession_read(session, ReadRoom(CurCall.l))
           s == read_frame_from_session(CurCall.l, r)
           log == [calls EXCEPT ![Len(calls)].l = s.l,
                                ![Len(calls)].frame = s.frame,
                                ![Len(calls)].kind = IF s.go \in {"continue", "Ok"}
                                                     THEN "" ELSE s.go]
       IN  /\ session' = r.s
           /\ Install(Client)
           /\ IF s.go = "continue" THEN Block(log, "recv_frame")
              ELSE Finish(log, IF s.go = "Ok" THEN "Ok" ELSE "Io", 0, H2Response_new(0))
    /\ UNCHANGED << wire, sent >>

\* The tail of every send function, `self.session.write(&encoded)?; Ok(())`:
\* an error of the session comes back as Error::Http, and the count the write
\* returns is dropped.
SessionSend(o, id, encoded, c) ==
    /\ pc = "idle"
    /\ Len(calls) < MaxCalls
    /\ UNCHANGED << wire, sent >>
    /\ \E writable \in BOOLEAN, n \in {Len(encoded)} \cup {k \in WriteCounts : k < Len(encoded)} :
         LET w == HttpSession_write(session, encoded, writable, n)
             res == IF w.res = "Ok" THEN "Ok" ELSE "Http"
         IN  /\ session' = w.s
             /\ Install(IF w.res = "Ok" THEN c ELSE Client)
             /\ Finish(Append(calls, [op |-> o, id |-> id, res |-> "pending",
                                      kind |-> IF w.res = "Ok" THEN "" ELSE w.res,
                                      encoded |-> encoded, n |-> w.n]),
                       res, id, H2Response_new(0))

\* send_ping(data)
SendPing(data) == SessionSend("send_ping", 0, encode_ping_frame(data), Client)

\* send_rst_stream(stream_id, error_code), on the bytes of the frame
SendRstStreamBytes(stream_id, error_code) ==
    SessionSend("send_rst_stream", stream_id,
                encode_rst_stream_frame(stream_id, error_code),
                IF stream_id \in DOMAIN streams
                THEN [Client EXCEPT !.streams[stream_id] = H2Stream_close(@)]
                ELSE Client)

\* The peer sends a frame: its first n bytes arrive, the others are in flight.
PeerSendBytes(f, n) ==
    /\ Len(sent) < MaxPeerFrames
    /\ session.in_flight = <<>>
    /\ ~session.peer_closed
    /\ n \in 1..Len(FrameBytes(f))
    /\ session' = [session EXCEPT
                     !.inbound = @ \o SubSeq(FrameBytes(f), 1, n),
                     !.in_flight = SubSeq(FrameBytes(f), n + 1, Len(FrameBytes(f)))]
    /\ sent' = Append(sent, f)
    /\ UNCHANGED << connected, streams, next_stream_id, max_concurrent_streams,
                    flow_control, remote_settings, pc, cur, response,
                    headers_received, result, out, wire, calls >>

\* The bytes in flight arrive.
Arrive ==
    /\ session.in_flight # <<>>
    /\ session' = [session EXCEPT !.inbound = @ \o session.in_flight,
                                  !.in_flight = <<>>]
    /\ UNCHANGED << connected, streams, next_stream_id, max_concurrent_streams,
                    flow_control, remote_settings, pc, cur, response,
                    headers_received, result, out, wire, sent, calls >>

\* The peer shuts its side of the transport down.
PeerClose ==
    /\ session.in_flight = <<>>
    /\ ~session.peer_closed
    /\ session' = [session EXCEPT !.peer_closed = TRUE]
    /\ UNCHANGED << connected, streams, next_stream_id, max_concurrent_streams,
                    flow_control, remote_settings, pc, cur, response,
                    headers_received, result, out, wire, sent, calls >>

NextSession ==
    \/ RecvFrame
    \/ RecvFrameRead
    \/ SendPing(PingData)
    \/ \E stream_id \in SessionSendIds : SendRstStreamBytes(stream_id, CANCEL)
    \/ \E f \in SessionFrames : \E n \in ArriveCounts \cup {Len(FrameBytes(f))} :
          PeerSendBytes(f, n)
    \/ Arrive
    \/ PeerClose

SpecSession == Init /\ [][NextSession]_vars

\* Frames too long: the peer sends DATA frames two bytes longer than the
\* MAX_FRAME_SIZE the client announces, and the test reads frames.
OversizeBody == [i \in 1..(DEFAULT_MAX_FRAME_SIZE + 2) |-> 0]
OversizeFrames == { PeerData(1, FALSE, OversizeBody) }

NextOversize ==
    \/ RecvFrame
    \/ RecvFrameRead
    \/ \E f \in OversizeFrames : \E n \in ArriveCounts \cup {Len(FrameBytes(f))} :
          PeerSendBytes(f, n)
    \/ Arrive
    \/ PeerClose

SpecOversize == Init /\ [][NextOversize]_vars

\* ------------------------------------------------------------------ claims

\* The frames the client has read so far, in order.
rx == SubSeq(sent, 1, Len(sent) - Len(wire))

\* This step is a read of the transport's next frame.
ReadStep == wire # <<>> /\ wire' = Tail(wire)

\* This step issues a new API call.
CallStep == pc = "idle" /\ Len(calls') = Len(calls) + 1

IsSettings(f) ==
    decode_type(f.type) = Settings /\ f.stream_id = CONNECTION_STREAM_ID

\* What a step that reads a frame for the awaited stream leaves as the body of
\* the response: the body being assembled, or the body returned.
BodyAfter == IF pc' = "idle" THEN result'.response.body ELSE response'.body

\* C1: a simple GET. After connect() has returned Ok against a peer that sends
\* its SETTINGS and the SETTINGS ACK, a bodiless request answered by
\* HEADERS(stream 1, :status 200, END_HEADERS) and DATA(stream 1, 14 bytes,
\* END_STREAM) returns, unless it timed out, Ok with stream id 1, status 200
\* and the 14 bytes as body.
C1_SimpleGet ==
    ( /\ Len(calls) = 2
      /\ calls[1] = [op |-> "connect", id |-> 0, len |-> 0, res |-> "Ok"]
      /\ calls[2].op = "request" /\ calls[2].len = 0
      /\ calls[2].res \notin {"pending", "Io"}
      /\ sent = << PeerSettings, PeerSettingsAck, PeerHeaders(1, FALSE),
                   PeerData(1, TRUE, HelloBody) >> )
    => /\ calls[2].res = "Ok"
       /\ result.id = 1
       /\ result.response.status = 200
       /\ result.response.body = HelloBody

\* C2: the handshake is complete, and connect() has set connected, only when
\* the client has read both a non-ACK SETTINGS frame and a SETTINGS ACK frame.
C2_HandshakeBoth ==
    connected =>
        /\ \E i \in 1..Len(rx) : IsSettings(rx[i]) /\ ~is_ack(rx[i].flags)
        /\ \E i \in 1..Len(rx) : IsSettings(rx[i]) /\ is_ack(rx[i].flags)

\* C3: when recv_response reads a HEADERS or DATA frame of the awaited stream
\* that carries END_STREAM, HEADERS after the first (trailers) included, it
\* returns Ok at once.
C3_EndStreamCompletes ==
    [][ ( /\ pc = "response"
          /\ ReadStep
          /\ decode_type(Head(wire).type) \in {Headers, Data}
          /\ Head(wire).stream_id = cur
          /\ is_end_stream(Head(wire).flags) )
        => (pc' = "idle" /\ calls'[Len(calls')].res = "Ok") ]_vars

\* C4: every DATA frame recv_response reads for the awaited stream appends its
\* payload to the body; the body is the concatenation of the payloads in
\* arrival order.
C4_BodyConcatenates ==
    [][ ( /\ pc = "response"
          /\ ReadStep
          /\ decode_type(Head(wire).type) = Data
          /\ Head(wire).stream_id = cur )
        => BodyAfter = response.body \o Head(wire).payload ]_vars

\* C5: when recv_response reads a non-ACK SETTINGS frame, the parameters of
\* that very frame are merged into the remote settings, exactly one SETTINGS
\* ACK is written, and the loop goes on to dispatch the next frame by its own
\* type.
C5_SettingsDuringResponse ==
    [][ ( /\ pc = "response"
          /\ ReadStep
          /\ IsSettings(Head(wire))
          /\ ~is_ack(Head(wire).flags)
          /\ validate(parse_settings(Head(wire).payload, 0, Settings_new)) )
        => /\ remote_settings' =
                 merge(remote_settings,
                       parse_settings(Head(wire).payload, 0, Settings_new))
           /\ out' = << SettingsAckFrame >>
           /\ pc' = "response" ]_vars

\* C6: every WINDOW_UPDATE with a 4-byte payload and a non-zero increment
\* that recv_response reads raises the send window it names by the increment:
\* the connection's for stream 0, the stream's for any known stream, the
\* awaited one or not.
C6_WindowUpdateApplied ==
    [][ ( /\ pc = "response"
          /\ ReadStep
          /\ decode_type(Head(wire).type) = WindowUpdate
          /\ Len(Head(wire).payload) = 4
          /\ u32_from_be_bytes(Head(wire).payload) # Wide(0) )
        => LET id == Head(wire).stream_id
               inc == u32_from_be_bytes(Head(wire).payload)
               raised(w) == Plus(w.current_size, inc)
           IN  /\ ( /\ id = CONNECTION_STREAM_ID
                    /\ LessEq(raised(flow_control.send_window), Wide(max_size)) )
                  => flow_control'.send_window.current_size =
                         raised(flow_control.send_window)
               /\ ( /\ id \in DOMAIN streams
                    /\ LessEq(raised(streams[id].send_window), Wide(max_size)) )
                  => /\ id \in DOMAIN streams'
                     /\ streams'[id].send_window.current_size =
                            raised(streams[id].send_window) ]_vars

\* C7: the client never writes a DATA frame whose payload is larger than the
\* connection send window or than the send window of its stream (for a stream
\* opened by the same call, the window it was opened with).
C7_DataWithinWindow ==
    [][ \A i \in 1..Len(out') :
          out'[i].type = Data =>
            /\ out'[i].len <= size(flow_control.send_window)
            /\ out'[i].stream_id \in DOMAIN streams' =>
                 out'[i].len <=
                   IF out'[i].stream_id \in DOMAIN streams
                   THEN size(streams[out'[i].stream_id].send_window)
                   ELSE Narrow(streams'[out'[i].stream_id].send_window.initial_size)
      ]_vars

\* C8: a call that has a body to emit while the connection send window or the
\* stream's send window is zero does not fail with a flow-control error (it
\* waits for a WINDOW_UPDATE).
C8_ZeroWindowWaits ==
    [][ ( /\ CallStep
          /\ calls'[Len(calls')].op \in {"request", "send_data"}
          /\ calls'[Len(calls')].len > 0
          /\ connected
          /\ \/ size(flow_control.send_window) = 0
             \/ /\ calls'[Len(calls')].id \in DOMAIN streams
                /\ size(streams[calls'[Len(calls')].id].send_window) = 0 )
        => calls'[Len(calls')].res # "FlowControl" ]_vars

\* What the client has read is the peer's SETTINGS with INITIAL_WINDOW_SIZE
\* first and then only frames that leave the stream windows alone, but for
\* the SETTINGS frames of tail.
ReadIwsThen(first, tail) ==
    /\ Len(rx) >= 1 + Len(tail)
    /\ rx[1] = PeerSettingsIws(first)
    /\ \A i \in 2..Len(rx) :
         IF i > Len(rx) - Len(tail)
         THEN rx[i] = tail[i - (Len(rx) - Len(tail))]
         ELSE /\ decode_type(rx[i].type) # WindowUpdate
              /\ ~(IsSettings(rx[i]) /\ ~is_ack(rx[i].flags))

\* C9: after the peer's SETTINGS INITIAL_WINDOW_SIZE=100, stream 1 is opened
\* with a send window of 100, which a 100-byte body exhausts; after a later
\* SETTINGS INITIAL_WINDOW_SIZE=200 the window is 100.
C9_RescaleScenario ==
    /\ ( /\ Len(calls) = 2
         /\ calls[1] = [op |-> "connect", id |-> 0, len |-> 0, res |-> "Ok"]
         /\ calls[2].op = "request" /\ calls[2].len = 100
         /\ 1 \in DOMAIN streams
         /\ ReadIwsThen(100, <<>>) )
       => size(streams[1].send_window) = 0
    /\ ( /\ Len(calls) = 3
         /\ calls[1] = [op |-> "connect", id |-> 0, len |-> 0, res |-> "Ok"]
         /\ calls[2].op = "request" /\ calls[2].len = 100
         /\ calls[3] = [op |-> "recv_settings", id |-> 0, len |-> 0, res |-> "Ok"]
         /\ 1 \in DOMAIN streams
         /\ ReadIwsThen(100, << PeerSettingsIws(200) >>) )
       => size(streams[1].send_window) = 100

\* C10: once recv_response has read a GOAWAY (and returned ConnectionClosed),
\* every later request() fails with ConnectionClosed.
C10_GoawayCloses ==
    [][ ( /\ CallStep
          /\ calls'[Len(calls')].op = "request"
          /\ \E k \in 1..Len(calls) : calls[k].res = "ConnectionClosed" )
        => calls'[Len(calls')].res = "ConnectionClosed" ]_vars

\* recv_response is waiting for a frame, in its own loop or inside the
\* recv_settings its SETTINGS arm calls.
InRecvResponse == pc \in {"response", "resp_settings"}

\* C11: when the client, waiting for a response, reads RST_STREAM for the
\* awaited stream, the stream becomes Closed and the call returns Cancel(id),
\* with the connection and the id counter left as they were; the request()
\* that follows takes the next odd stream id and waits for its response.
C11_ResetCancels ==
    [][ /\ ( /\ InRecvResponse
             /\ ReadStep
             /\ decode_type(Head(wire).type) = RstStream
             /\ Head(wire).stream_id = cur )
           => /\ pc' = "idle"
              /\ calls'[Len(calls')].res = "Cancel"
              /\ result'.id = cur
              /\ streams'[cur].state = "Closed"
              /\ connected' = connected
              /\ next_stream_id' = next_stream_id
        /\ ( /\ CallStep
             /\ Len(calls) > 0
             /\ calls[Len(calls)].res = "Cancel"
             /\ calls'[Len(calls')].op = "request" )
           => /\ pc' = "response"
              /\ cur' = result.id + 2
              /\ cur' \in DOMAIN streams'
              /\ calls'[Len(calls')].res = "pending" ]_vars

\* C12: for a PING without ACK (stream 0, 8 bytes) that the client reads while
\* it waits for a response, it writes, in the step that reads it, exactly one
\* PING with the ACK flag and the same 8 bytes; reading a PING that carries ACK
\* writes no PING.
C12_PingEchoed ==
    [][ ( /\ ReadStep
          /\ decode_type(Head(wire).type) = Ping
          /\ Head(wire).stream_id = CONNECTION_STREAM_ID
          /\ Len(Head(wire).payload) = 8 )
        => /\ (InRecvResponse /\ ~is_ack(Head(wire).flags))
                => out' = << [type |-> Ping, flags |-> ACK, stream_id |-> 0,
                              len |-> 8, payload |-> Head(wire).payload] >>
           /\ is_ack(Head(wire).flags)
                => \A i \in 1..Len(out') : out'[i].type # Ping ]_vars

\* C13: once the client has sent END_STREAM on a stream (it is HalfClosedLocal)
\* and recv_response returns because it has read END_STREAM, or RST_STREAM, for
\* that stream, the stream is Closed in the stream manager, and so is not among
\* the streams create_stream counts.
C13_CompletedStreamClosed ==
    [][ ( /\ InRecvResponse
          /\ ReadStep
          /\ cur \in DOMAIN streams
          /\ streams[cur].state = "HalfClosedLocal"
          /\ pc' = "idle"
          /\ calls'[Len(calls')].res \in {"Ok", "Cancel"} )
        => /\ streams'[cur].state = "Closed"
           /\ cur \notin {s \in DOMAIN streams' : ~is_closed(streams'[s].state)} ]_vars

\* The operation this step applies to the stream, as logged.
StreamStep == Len(calls') = Len(calls) + 1
LastOp == calls'[Len(calls')]
FrameDrivenOps ==
    {"send_headers", "send_data", "receive_headers", "receive_data", "close", "reset"}

\* C14: Closed is absorbing: send_headers, send_data, receive_headers,
\* receive_data, close and reset, failing or not, leave a Closed stream Closed.
C14_ClosedAbsorbing ==
    [][ ( /\ StreamStep
          /\ LastOp.op \in FrameDrivenOps
          /\ streams[1].state = "Closed" )
        => streams'[1].state = "Closed" ]_vars

\* HEADERS were to be sent on a stream that close() had closed: send_headers
\* refused and the stream is still Closed.
C14_Witness ==
    /\ Len(calls) >= 2
    /\ calls[Len(calls) - 1].op = "close"
    /\ calls[Len(calls)].op = "send_headers"
    /\ calls[Len(calls)].res = "Protocol"
    /\ streams[1].state = "Closed"

\* C15: a stream half-closed in one direction becomes Closed when END_STREAM is
\* processed in the other: HalfClosedLocal and a received DATA or HEADERS with
\* END_STREAM, HalfClosedRemote and a sent DATA or HEADERS with END_STREAM.
C15_HalfClosedToClosed ==
    [][ ( /\ StreamStep
          /\ LastOp.es
          /\ \/ /\ streams[1].state = "HalfClosedLocal"
                /\ LastOp.op \in {"receive_data", "receive_headers"}
             \/ /\ streams[1].state = "HalfClosedRemote"
                /\ LastOp.op \in {"send_data", "send_headers"} )
        => streams'[1].state = "Closed" ]_vars

\* C16: the transition table from Idle and the reserved states: HEADERS sent
\* from Idle gives Open, or HalfClosedLocal with END_STREAM; HEADERS received
\* from Idle gives Open, or HalfClosedRemote with END_STREAM; HEADERS sent from
\* ReservedLocal gives HalfClosedRemote, HEADERS received from ReservedRemote
\* gives HalfClosedLocal; send_data and receive_data on an Idle stream return
\* an error and leave it Idle.
C16_IdleTransitions ==
    [][ StreamStep =>
        /\ (streams[1].state = "Idle" /\ LastOp.op = "send_headers")
             => /\ LastOp.res = "Ok"
                /\ streams'[1].state = IF LastOp.es THEN "HalfClosedLocal" ELSE "Open"
        /\ (streams[1].state = "Idle" /\ LastOp.op = "receive_headers")
             => /\ LastOp.res = "Ok"
                /\ streams'[1].state = IF LastOp.es THEN "HalfClosedRemote" ELSE "Open"
        /\ (streams[1].state = "ReservedLocal" /\ LastOp.op = "send_headers")
             => (LastOp.res = "Ok" /\ streams'[1].state = "HalfClosedRemote")
        /\ (streams[1].state = "ReservedRemote" /\ LastOp.op = "receive_headers")
             => (LastOp.res = "Ok" /\ streams'[1].state = "HalfClosedLocal")
        /\ (streams[1].state = "Idle" /\ LastOp.op \in {"send_data", "receive_data"})
             => (LastOp.res # "Ok" /\ streams'[1] = streams[1]) ]_vars

\* DATA was refused on the fresh stream, which is Idle still, with its windows
\* untouched.
C16_Witness ==
    /\ Len(calls) = 1
    /\ calls[1].op = "send_data"
    /\ calls[1].res = "StreamClosed"
    /\ streams[1] = H2Stream_new

\* The create_stream calls of the log that returned an id, in order.
IsCreated(e) == e.op = "create_stream" /\ e.res = "Ok"
Created == SelectSeq(calls, IsCreated)
FirstId == IF calls[1].is_client THEN 1 ELSE 2

\* C17: over any sequence of create_stream calls on one manager, failed ones
\* among them, the ids returned are 1, 3, 5, ... for a client manager and
\* 2, 4, 6, ... for a server manager, in that order: strictly increasing in
\* steps of 2, none returned twice, none consumed by a failed call.
C17_StreamIds ==
    /\ \A k \in 1..Len(Created) : Created[k].id = FirstId + 2 * (k - 1)
    /\ next_stream_id = FirstId + 2 * Len(Created)

\* A create_stream failed between two that returned ids.
C17_Witness ==
    /\ Len(Created) = 2
    /\ \E i, j, k \in 1..Len(calls) :
         /\ i < j /\ j < k
         /\ IsCreated(calls[i])
         /\ calls[j].op = "create_stream" /\ calls[j].res = "TooManyStreams"
         /\ IsCreated(calls[k])

\* The streams of the manager that are not Closed.
ActiveStreams == {s \in DOMAIN streams : ~is_closed(streams[s].state)}

\* C18: create_stream fails with TooManyStreams exactly when a cap is set and
\* the number of non-Closed streams has reached it, and then leaves the streams
\* and the next id as they were; otherwise it returns the next id, inserts an
\* Idle stream under it and leaves the other streams alone.
C18_ConcurrencyCap ==
    [][ (StreamStep /\ LastOp.op = "create_stream") =>
        IF max_concurrent_streams # None
           /\ Cardinality(ActiveStreams) >= Narrow(max_concurrent_streams)
        THEN /\ LastOp.res = "TooManyStreams"
             /\ streams' = streams
             /\ next_stream_id' = next_stream_id
        ELSE /\ LastOp.res = "Ok"
             /\ LastOp.id = next_stream_id
             /\ next_stream_id' = next_stream_id + 2
             /\ DOMAIN streams' = DOMAIN streams \cup {next_stream_id}
             /\ streams'[next_stream_id].state = "Idle"
             /\ \A s \in DOMAIN streams \ {next_stream_id} : streams'[s] = streams[s]
      ]_vars

\* With the cap unchanged, create_stream failed, a stream was closed, and
\* create_stream then succeeded: closing made room.
C18_Witness ==
    /\ Len(calls) >= 4
    /\ calls[Len(calls) - 2].op = "create_stream"
    /\ calls[Len(calls) - 2].res = "TooManyStreams"
    /\ calls[Len(calls) - 1].op = "close"
    /\ calls[Len(calls)].op = "create_stream"
    /\ calls[Len(calls)].res = "Ok"

\* The ids get_or_create_stream was called with so far.
SeenPeerIds == {calls[k].id : k \in {i \in 1..Len(calls) : calls[i].op = "get_or_create_stream"}}

\* C19: get_or_create_stream inserts a stream only for an unknown id higher
\* than every id it has seen before; for an unknown id lower than one seen
\* before it returns a protocol error and inserts nothing.
C19_PeerIdOrder ==
    [][ ( /\ StreamStep
          /\ LastOp.op = "get_or_create_stream"
          /\ LastOp.id \notin DOMAIN streams )
        => IF \E seen \in SeenPeerIds : seen > LastOp.id
           THEN LastOp.res = "Protocol" /\ streams' = streams
           ELSE LastOp.res = "Ok" /\ LastOp.id \in DOMAIN streams' ]_vars

\* The amounts consume granted and the increments increase accepted, summed
\* over the first n operations on the window.
RECURSIVE SumGranted(_)
SumGranted(n) ==
    IF n = 0 THEN 0
    ELSE SumGranted(n - 1) + (IF calls[n].op = "consume" THEN calls[n].granted ELSE 0)

RECURSIVE SumIncreased(_)
SumIncreased(n) ==
    IF n = 0 THEN Wide(0)
    ELSE Plus(SumIncreased(n - 1),
              IF calls[n].op = "increase" /\ calls[n].ok THEN calls[n].len ELSE Wide(0))

\* C20: for a window created with initial size I, the amounts granted by
\* consume never add up to more than I plus the increments of the increase
\* calls that succeeded. A grant of 2^63 or more (negative as held here) is
\* beyond any such sum.
C20_GrantedWithinWindow ==
    /\ \A k \in 1..Len(calls) : calls[k].op = "consume" => calls[k].granted >= 0
    /\ LessEq(Wide(SumGranted(Len(calls))),
              Plus(flow_control.send_window.initial_size, SumIncreased(Len(calls))))

\* C21: whatever u32 a window is created with and whatever consume, increase,
\* decrease, update_initial_size and reset calls follow, its current size is
\* at most 2^31 - 1.
C21_WindowAtMostMax ==
    LessEq(flow_control.send_window.current_size, Wide(max_size))

\* C22: consume(n) returns Ok; on a window that is zero or negative it grants
\* 0 and leaves the window alone, otherwise it grants the smaller of n and the
\* window and lowers the window by exactly that, never below zero. (An amount
\* of 2^63 or more, negative as held here, is larger than any window.)
C22_ConsumeGrantsMin ==
    [][ ( StreamStep /\ LastOp.op = "consume" )
        => LET w == flow_control.send_window
               n == LastOp.len
               least == IF n >= 0 /\ Less(Wide(n), w.current_size) THEN Wide(n)
                        ELSE w.current_size
           IN  /\ LastOp.ok
               /\ IF LessEq(w.current_size, Wide(0))
                  THEN LastOp.granted = 0 /\ flow_control'.send_window = w
                  ELSE /\ LastOp.granted >= 0
                       /\ Wide(LastOp.granted) = least
                       /\ flow_control'.send_window =
                              [w EXCEPT !.current_size = Minus(@, least)]
                       /\ LessEq(Wide(0), flow_control'.send_window.current_size) ]_vars

\* C23: update_initial_size(new_initial) adds new_initial - old_initial to the
\* current size, which may become negative, and records new_initial; when the
\* sum would pass 2^31 - 1 it fails with a flow-control error and leaves the
\* current size and the initial size as they were.
C23_RescaleByDelta ==
    [][ ( StreamStep /\ LastOp.op = "update_initial_size" )
        => LET w == flow_control.send_window
               new_initial == LastOp.len
               target == Plus(w.current_size, Minus(new_initial, w.initial_size))
           IN  IF Less(Wide(max_size), target)
               THEN ~LastOp.ok /\ flow_control'.send_window = w
               ELSE /\ LastOp.ok
                    /\ flow_control'.send_window =
                           [initial_size |-> new_initial, current_size |-> target] ]_vars

\* An update_initial_size has failed, and a later one has taken the window
\* below zero.
C23_Witness ==
    /\ \E k \in 1..Len(calls) : calls[k].op = "update_initial_size" /\ ~calls[k].ok
    /\ Len(calls) >= 1
    /\ calls[Len(calls)].op = "update_initial_size"
    /\ calls[Len(calls)].ok
    /\ Less(flow_control.send_window.current_size, Wide(0))

\* ConnectionFlowControl::should_send_window_update's test on a receive window.
BelowHalf(w) == Less(w.current_size, Wide(Narrow(w.initial_size) \div 2))

\* A WINDOW_UPDATE on stream id is among the frames the step wrote.
WroteWindowUpdate(id) ==
    \E i \in 1..Len(out') : out'[i].type = WindowUpdate /\ out'[i].stream_id = id

\* C24: when recv_response has processed a DATA frame that takes the
\* connection receive window below half its initial size, a WINDOW_UPDATE on
\* stream 0 is written; when it takes the stream's receive window below half
\* its initial size, a WINDOW_UPDATE on that stream is written.
C24_WindowUpdateBelowHalf ==
    [][ ( /\ pc = "response"
          /\ ReadStep
          /\ decode_type(Head(wire).type) = Data
          /\ Head(wire).stream_id = cur )
        => LET len == Len(Head(wire).payload)
           IN  /\ BelowHalf(decrease(flow_control.recv_window, len))
                     => WroteWindowUpdate(CONNECTION_STREAM_ID)
               /\ ( /\ cur \in DOMAIN streams
                    /\ BelowHalf(decrease(streams[cur].recv_window, len)) )
                     => WroteWindowUpdate(cur) ]_vars

\* The step wrote a frame of this type on stream id.
Wrote(type, id) ==
    \E i \in 1..Len(out') : out'[i].type = type /\ out'[i].stream_id = id

\* The send windows of the connection and of every stream are as they were.
WindowsUnchanged ==
    /\ flow_control' = flow_control
    /\ \A s \in DOMAIN streams :
         /\ s \in DOMAIN streams'
         /\ streams'[s].send_window = streams[s].send_window
         /\ streams'[s].recv_window = streams[s].recv_window

\* C25: a WINDOW_UPDATE with increment 0 that recv_response reads is, on a
\* stream, a stream error (RST_STREAM with FLOW_CONTROL_ERROR is written for
\* the stream, the stream becomes Closed, the connection goes on) and, on
\* stream 0, a connection error (GOAWAY is written and the connection is torn
\* down); no window changes.
C25_ZeroIncrementScoped ==
    [][ ( /\ pc = "response"
          /\ ReadStep
          /\ decode_type(Head(wire).type) = WindowUpdate
          /\ Len(Head(wire).payload) = 4
          /\ u32_from_be_bytes(Head(wire).payload) = Wide(0) )
        => LET id == Head(wire).stream_id
           IN  /\ WindowsUnchanged
               /\ IF id = CONNECTION_STREAM_ID
                  THEN Wrote(Goaway, 0) /\ ~connected'
                  ELSE /\ \E i \in 1..Len(out') :
                            /\ out'[i].type = RstStream
                            /\ out'[i].stream_id = id
                            /\ out'[i].payload = U32Bytes(Wide(FLOW_CONTROL_ERROR))
                       /\ id \in DOMAIN streams => is_closed(streams'[id].state)
                       /\ connected' ]_vars

\* A SETTINGS or PING frame on a stream, or a SETTINGS frame whose payload is
\* not a whole number of 6-byte entries, and the error kind it calls for.
Malformed(f) ==
    \/ decode_type(f.type) \in {Settings, Ping} /\ f.stream_id # CONNECTION_STREAM_ID
    \/ decode_type(f.type) = Settings /\ Len(f.payload) % 6 # 0
MalformedKind(f) ==
    IF f.stream_id # CONNECTION_STREAM_ID THEN "Protocol" ELSE "FrameSize"

\* C26: whenever the client reads a SETTINGS or PING frame with a stream id
\* other than 0, or a SETTINGS frame whose payload length is no multiple of
\* 6, the call ends with a connection error (PROTOCOL_ERROR for the stream
\* id, FRAME_SIZE_ERROR for the length), the frame's settings are not applied
\* and nothing is written in answer.
C26_MalformedControlRejected ==
    [][ ( ReadStep /\ Malformed(Head(wire)) )
        => /\ pc' = "idle"
           /\ result'.res = MalformedKind(Head(wire))
           /\ remote_settings' = remote_settings
           /\ ~Wrote(Settings, 0)
           /\ ~Wrote(Ping, 0) ]_vars

\* C27: send_rst_stream(id, code) on a known stream leaves the stream Closed,
\* and a recv_response(id) issued after it returns Cancel(id) without waiting
\* for a frame.
C27_ResetThenCancel ==
    [][ /\ ( /\ CallStep
             /\ LastOp.op = "send_rst_stream"
             /\ LastOp.id \in DOMAIN streams )
           => is_closed(streams'[LastOp.id].state)
        /\ ( /\ CallStep
             /\ LastOp.op = "recv_response"
             /\ LastOp.id \in DOMAIN streams
             /\ calls # <<>>
             /\ calls[Len(calls)].op = "send_rst_stream"
             /\ calls[Len(calls)].id = LastOp.id )
           => /\ LastOp.res = "Cancel"
              /\ pc' = "idle"
              /\ result'.id = LastOp.id ]_vars

\* The settings values that are out of range, as Settings holds them.
OutOfRange(id, value) ==
    \/ id = 4 /\ Less(Wide(max_size), value)
    \/ id = 5 /\ (Less(value, Wide(MinMaxFrameSize)) \/ Less(Wide(MaxMaxFrameSize), value))

\* The payload has an entry with a value out of range.
CarriesOutOfRange(payload) ==
    \E k \in 0..(Len(payload) \div 6 - 1) :
       OutOfRange(u16_from_be_bytes(SubSeq(payload, 6 * k + 1, 6 * k + 2)),
                  u32_from_be_bytes(SubSeq(payload, 6 * k + 3, 6 * k + 6)))

\* C28: SettingsBuilder::build fails on an INITIAL_WINDOW_SIZE above 2^31 - 1
\* and on a MAX_FRAME_SIZE outside 16384..16777215; when recv_settings reads
\* a SETTINGS frame that carries such a value it returns InvalidSettings,
\* leaves the remote settings, the concurrency cap and every stream as they
\* were, and writes no SETTINGS ACK.
C28_OutOfRangeRejected ==
    /\ \A v \in {TooLargeWindow, u32_MAX} :
         ~SettingsBuilder_build([Settings_new EXCEPT !.initial_window_size = v])
    /\ \A v \in {Wide(TooSmallFrame), Wide(TooLargeFrame)} :
         ~SettingsBuilder_build([Settings_new EXCEPT !.max_frame_size = v])
    /\ [][ ( /\ pc \in {"connect", "recv_settings", "resp_settings"}
             /\ ReadStep
             /\ IsSettings(Head(wire))
             /\ ~is_ack(Head(wire).flags)
             /\ CarriesOutOfRange(Head(wire).payload) )
           => /\ pc' = "idle"
              /\ result'.res = "InvalidSettings"
              /\ remote_settings' = remote_settings
              /\ max_concurrent_streams' = max_concurrent_streams
              /\ streams' = streams
              /\ out' = <<>> ]_vars

\* C29: the client writes a DATA frame for a stream only after it has written
\* a HEADERS frame for it: a send_data call for a stream on which no HEADERS
\* was sent fails and writes nothing. (HEADERS are written here by request()
\* alone, for the stream it has just registered, so no HEADERS was written
\* for a stream the manager does not know.)
C29_HeadersBeforeData ==
    [][ ( /\ CallStep
          /\ LastOp.op = "send_data"
          /\ LastOp.id \notin DOMAIN streams )
        => /\ LastOp.res # "Ok"
           /\ \A i \in 1..Len(out') : out'[i].type # Data ]_vars

\* C30: decode_header(encode_header(type, flags, stream_id, length)) is
\* (type, flags, stream_id, length) for each of the ten frame types, every
\* flags byte, every stream id up to 2^31 - 1 and every length up to
\* 2^24 - 1; the reserved bit of the encoded stream id is always 0.
C30_HeaderRoundTrip ==
    \A k \in 1..Len(calls) :
       LET e == calls[k]
       IN  /\ e.header[6] < 128
           /\ ( LessEq(e.stream_id, Wide(max_size)) /\ e.length <= MAX_FRAME_SIZE )
                => e.decoded = [frame_type |-> e.frame_type, flags |-> e.flags,
                                stream_id |-> Narrow(e.stream_id), length |-> e.length]

\* The largest stream id and the largest length have made the round trip in
\* a CONTINUATION header with every flag set, and a stream id with the
\* reserved bit has been encoded.
C30_Witness ==
    /\ calls # <<>>
    /\ calls[1].frame_type = Continuation
    /\ calls[1].flags = 255
    /\ calls[1].stream_id = Wide(max_size)
    /\ calls[1].length = MAX_FRAME_SIZE
    /\ calls[1].decoded.stream_id = max_size

\* C31: decode_header hands an unknown type byte on as something other than
\* the ten known types, and a frame with such a type byte that recv_response
\* reads is not dispatched as DATA or any known type: it adds nothing to the
\* body, takes nothing from the receive windows, writes nothing and does not
\* complete the response.
C31_UnknownTypeKept ==
    /\ \A byte \in UnknownTypes :
         decode_header(encode_header(byte, 0, Wide(1), 0)).frame_type \notin CodecTypes
    /\ [][ ( /\ pc = "response"
             /\ ReadStep
             /\ Head(wire).type \notin CodecTypes
             /\ Head(wire).stream_id = cur )
           => /\ BodyAfter = response.body
              /\ flow_control' = flow_control
              /\ streams' = streams
              /\ out' = <<>>
              /\ ~(pc' = "idle" /\ result'.res = "Ok") ]_vars

\* C32: a recv_frame that has read a frame header whose length field is above
\* the client's own MAX_FRAME_SIZE (16384) plus 1 fails with FrameSize: it does
\* not go on to read the payload and never returns the frame.
C32_OversizeRejected ==
    \A k \in 1..Len(calls) :
       ( /\ calls[k].op = "recv_frame"
         /\ Len(calls[k].l.header) = FRAME_HEADER_SIZE
         /\ decode_header(calls[k].l.header).length > DEFAULT_MAX_FRAME_SIZE + 1 )
       => calls[k].res = "FrameSize"

\* C33: the session polls before every read and write, and when the poll
\* times out the client's operation returns the error Timeout: a recv_frame
\* whose read found nothing to read in time, and a send whose write found the
\* transport not ready in time.
C33_TimeoutSurfaces ==
    [][ /\ ( /\ pc = "recv_frame"
             /\ pc' = "idle"
             /\ HttpSession_read(session, ReadRoom(calls[Len(calls)].l)).res = "Timeout" )
           => result'.res = "Timeout"
        /\ ( /\ CallStep
             /\ LastOp.op \in {"send_ping", "send_rst_stream"}
             /\ LastOp.kind = "Timeout" )
           => LastOp.res = "Timeout" ]_vars

\* C34: a send_data call that returns an error has written no DATA frame and
\* has left the connection send window and every stream (its send window and
\* its state) as they were before the call.
C34_SendDataAllOrNothing ==
    [][ ( /\ CallStep
          /\ LastOp.op = "send_data"
          /\ LastOp.res # "Ok" )
        => /\ \A i \in 1..Len(out') : out'[i].type # Data
           /\ flow_control'.send_window = flow_control.send_window
           /\ streams' = streams ]_vars

\* C35: whatever SETTINGS frames the client has processed, the stream
\* manager's concurrency cap is the MAX_CONCURRENT_STREAMS of the merged remote
\* settings; a SETTINGS frame without the parameter leaves the cap in force.
C35_CapFollowsMerged ==
    max_concurrent_streams = remote_settings.max_concurrent_streams

\* The connection send window or the send window of a stream is larger after
\* the step than before.
SendWindowGrows ==
    \/ Less(flow_control.send_window.current_size, flow_control'.send_window.current_size)
    \/ \E s \in DOMAIN streams \cap DOMAIN streams' :
          Less(streams[s].send_window.current_size, streams'[s].send_window.current_size)

\* C36: a send window of the client grows only when the client reads credit
\* from the peer, a WINDOW_UPDATE frame or a SETTINGS frame (INITIAL_WINDOW_SIZE
\* rescale); send_window_update, which announces credit to the peer, leaves
\* every send window as it was.
C36_SendWindowFromPeerOnly ==
    [][ SendWindowGrows
        => /\ ReadStep
           /\ decode_type(Head(wire).type) \in {WindowUpdate, Settings} ]_vars

\* The frames recv_frame has returned, in order.
ReturnedOk(call) == call.op = "recv_frame" /\ call.res = "Ok"
Returned ==
    LET ok == SelectSeq(calls, ReturnedOk) IN [i \in 1..Len(ok) |-> ok[i].frame]

\* C37: a timeout of recv_frame loses no byte it has consumed: the frames
\* that recv_frame returns, before and after timeouts, are the frames the
\* peer has sent, in the order sent.
C37_FramesStayAligned ==
    /\ Len(Returned) <= Len(sent)
    /\ Returned = SubSeq(sent, 1, Len(Returned))

\* The step is a call that writes the connection preface, or the client's
\* initial SETTINGS frame.
WritesHandshake ==
    /\ CallStep
    /\ \E i \in 1..Len(out') : out'[i] \in {PrefaceWritten, LocalSettingsFrame}

\* C38: over any sequence of connect() and request() calls, also after a
\* connect that failed while waiting for the peer's SETTINGS, the preface and
\* the initial SETTINGS frame are written at most once. The first call of a
\* client always writes both, so no later call writes either.
C38_HandshakeOnce ==
    [][ WritesHandshake => calls = <<>> ]_vars

\* C39: a send call that returns Ok had every byte of its frame accepted by
\* the transport; after a short write the call returns an error.
C39_SendAcceptsAll ==
    \A k \in 1..Len(calls) :
       (calls[k].op \in {"send_ping", "send_rst_stream"} /\ calls[k].res = "Ok")
       => calls[k].n = Len(calls[k].encoded)

\* C40: a HEADERS or DATA frame whose stream id is not the awaited one, stream
\* 0 included, neither changes the response being assembled nor completes
\* the call.
C40_OnlyAwaitedStream ==
    [][ ( /\ pc = "response"
          /\ ReadStep
          /\ decode_type(Head(wire).type) \in {Headers, Data}
          /\ Head(wire).stream_id # cur )
        => /\ pc' = "response"
           /\ response' = response ]_vars

====
